---------------------------- MODULE Spec2Model ----------------------------
(***************************************************************************)
(* Model of the building-report pipeline (building_analyzer.py) and of the *)
(* multi-language PDF pipeline (main.py).                                  *)
(*                                                                         *)
(* Conventions.                                                            *)
(*  - A Python string is a sequence of pieces (TLA+ strings); the string   *)
(*    is the concatenation of its pieces.  " " is the whitespace piece.    *)
(*  - A Python value is a record [k, n, s, l]: k is its kind ("null",      *)
(*    "num", "bool", "str", "list"), n its number, s its string, l its     *)
(*    list of strings.  Floats are modelled by integers.                   *)
(*  - A Python dict is a function from field names to values.              *)
(*  - A function that can raise returns [raised, value].                   *)
(*  - The Arabic literals of the source are written as ASCII stand-ins;    *)
(*    the comment beside each gives the literal.                           *)
(***************************************************************************)
EXTENDS Integers, Sequences, FiniteSets, TLC

VARIABLES
    prog,             \* which program runs: "building_analyzer", "main", or a function under test
    pc,               \* position of the running program
    building_files,   \* building_analyzer.py: the scanner's result; main.py: pdf_files
    i,                \* number of documents handled so far (loop position)
    all_buildings,    \* building_analyzer.py: all_buildings; main.py: results
    all_suggestions,  \* building_analyzer.py: all_suggestions
    files,            \* the output files: file name -> content, NoFile when absent
    arg,              \* argument of the function under test
    ret               \* its result

vars == <<prog, pc, building_files, i, all_buildings, all_suggestions, files, arg, ret>>

---------------------------------------------------------------------------
(* Bounds of the model *)

MaxDocs == 2          \* documents in a batch
MaxImages == 2        \* embedded images of a document that has images
MaxOffset == 1        \* where the second sampled schema window starts in the pool
MaxPages == 3         \* pages of a document read page by page

---------------------------------------------------------------------------
(* Python values *)

Null == [k |-> "null", n |-> 0, s |-> <<>>, l |-> <<>>]
Num(x) == [k |-> "num", n |-> x, s |-> <<>>, l |-> <<>>]
Bool(b) == [k |-> "bool", n |-> IF b THEN 1 ELSE 0, s |-> <<>>, l |-> <<>>]
Str(t) == [k |-> "str", n |-> 0, s |-> t, l |-> <<>>]
List(q) == [k |-> "list", n |-> 0, s |-> <<>>, l |-> q]

Ok(v) == [raised |-> FALSE, value |-> v]
Raise == [raised |-> TRUE, value |-> <<>>]

EmptyDict == [f \in {} |-> Null]

\* dict.get(key, default)
Get(d, key, default) == IF key \in DOMAIN d THEN d[key] ELSE default

\* d1.update(d2) / d1[key] = value
Update(d1, d2) ==
    [f \in DOMAIN d1 \cup DOMAIN d2 |-> IF f \in DOMAIN d2 THEN d2[f] ELSE d1[f]]

RECURSIVE Concat(_)
\* "".join(parts)
Concat(parts) ==
    IF parts = <<>> THEN <<>> ELSE Head(parts) \o Concat(Tail(parts))

RECURSIVE Join(_, _)
\* sep.join(parts)
Join(sep, parts) ==
    IF parts = <<>> THEN <<>>
    ELSE IF Len(parts) = 1 THEN Head(parts)
    ELSE Head(parts) \o sep \o Join(sep, Tail(parts))

RECURSIVE LStrip(_)
LStrip(t) == IF t # <<>> /\ Head(t) = " " THEN LStrip(Tail(t)) ELSE t

RECURSIVE RStrip(_)
RStrip(t) ==
    IF t # <<>> /\ t[Len(t)] = " " THEN RStrip(SubSeq(t, 1, Len(t) - 1)) ELSE t

\* str.strip()
Strip(t) == RStrip(LStrip(t))

\* str(v), as csv.writer and "; ".join(str(v) ...) render a value
PyStr(v) ==
    CASE v.k = "null" -> <<"None">>
      [] v.k = "num"  -> <<ToString(v.n)>>
      [] v.k = "bool" -> IF v.n = 1 THEN <<"True">> ELSE <<"False">>
      [] v.k = "str"  -> v.s
      [] OTHER        -> <<"[">> \o Join(<<",", " ">>, [j \in 1..Len(v.l) |-> <<"'">> \o v.l[j] \o <<"'">>]) \o <<"]">>


---------------------------------------------------------------------------
(* Field names *)

\* Every field name of the two programs, in the order Python's sorted() gives
\* them (code-point order).  The Arabic names of main.py sort after every
\* ASCII name; "ar_x" stands for the Arabic name of the pool entry whose
\* English counterpart is x.
FieldOrder ==
    << "ai_confidence", "auditor_name", "benefits", "building_age",
       "building_category", "building_id", "building_name", "building_type",
       "business_summary", "ceo_name", "city_name", "company_name",
       "confidence_score", "construction_year", "description",
       "detected_language", "document_size_mb", "document_type",
       "employee_count", "estimated_cost", "extraction_status", "filing_date",
       "fiscal_year", "floors_count", "generated_timestamp", "image_count",
       "image_paths", "industry_sector", "inspector_name", "key_metrics",
       "last_inspection_date", "maintenance_status", "neighborhood",
       "net_income", "page_count", "pdf_filename", "priority",
       "priority_level", "processing_timestamp", "report_date",
       "required_repairs", "requirements", "risk_count", "risks",
       "safety_issues", "structural_condition", "suggestion_id",
       "suggestion_type", "timeline", "title", "total_area", "total_assets",
       "total_revenue",
       "ar_total_assets", "ar_total_revenue", "ar_ceo_name", "ar_company_name",
       "ar_auditor_name", "ar_fiscal_year", "ar_key_metrics", "ar_filing_date",
       "ar_extraction_status", "ar_document_size_mb", "ar_confidence_score",
       "ar_net_income", "ar_page_count", "ar_image_count", "ar_risk_count",
       "ar_employee_count", "ar_industry_sector", "ar_business_summary",
       "ar_document_type", "ar_processing_timestamp" >>

\* sorted(list(all_fields))
Sorted(all_fields) == SelectSeq(FieldOrder, LAMBDA f : f \in all_fields)

Range(q) == {q[j] : j \in 1..Len(q)}

\* The keys of the first record only
AllFields_FirstOnly(records) == DOMAIN records[1]

\* all_fields = set(); for r in records: all_fields.update(r.keys())
AllFields(records) == UNION {DOMAIN records[j] : j \in 1..Len(records)}

---------------------------------------------------------------------------
(* pydantic models *)

\* class BuildingInfo(BaseModel)
BuildingInfo ==
    [ required |-> {"building_id", "city_name", "building_category",
                    "building_type", "building_name"},
      types |->
        [f \in {"building_id", "city_name", "building_category", "building_type",
                "building_name", "neighborhood", "structural_condition",
                "maintenance_status", "priority_level", "last_inspection_date",
                "inspector_name", "report_date", "pdf_filename",
                "processing_timestamp"} |-> "str"]
        @@ [f \in {"construction_year", "building_age", "floors_count",
                   "total_area", "estimated_cost"} |-> "num"]
        @@ [f \in {"safety_issues", "required_repairs", "image_paths"} |-> "list"] ]

\* class BuildingSuggestion(BaseModel)
BuildingSuggestion ==
    [ required |-> {"building_id", "suggestion_id", "suggestion_type", "title",
                    "description", "priority"},
      types |->
        [f \in {"building_id", "suggestion_id", "suggestion_type", "title",
                "description", "priority", "timeline",
                "generated_timestamp"} |-> "str"]
        @@ [f \in {"estimated_cost", "ai_confidence"} |-> "num"]
        @@ [f \in {"benefits", "risks", "requirements"} |-> "list"] ]

\* Whether value v is accepted for a field of the declared type (the values
\* of a payload are null, numbers, strings and lists of strings).
ValidField(type, v) ==
    CASE type = "str"  -> v.k = "str"
      [] type = "num"  -> v.k = "num"
      [] OTHER         -> v.k = "list"

\* Model.model_validate(payload).model_dump(): raises when a required field
\* is missing or null or when any supplied non-null value fails its type;
\* absent optional fields become None; unknown keys are ignored.
model_validate(model, payload) ==
    LET fields == DOMAIN model.types IN
    IF \E f \in model.required : f \notin DOMAIN payload \/ payload[f] = Null
    THEN Raise
    ELSE IF \E f \in fields \cap DOMAIN payload :
                payload[f] # Null /\ ~ValidField(model.types[f], payload[f])
    THEN Raise
    ELSE Ok([f \in fields |-> IF f \in DOMAIN payload THEN payload[f] ELSE Null])

---------------------------------------------------------------------------
(* The generative service (external): what one call can do *)

\* A JSON value: t is "object", "array", "string", "number" or "null"; obj is
\* the payload of an object, items the elements of an array, len the length
\* of a string.
JObject(payload) == [t |-> "object", obj |-> payload, items |-> <<>>, len |-> 0]
JArray(items) == [t |-> "array", obj |-> EmptyDict, items |-> items, len |-> 0]
JString(n) == [t |-> "string", obj |-> EmptyDict, items |-> <<>>, len |-> n]
JNumber == [t |-> "number", obj |-> EmptyDict, items |-> <<>>, len |-> 0]
JNull == [t |-> "null", obj |-> EmptyDict, items |-> <<>>, len |-> 0]

\* The call raised; the response text is not JSON; the response text is JSON.
CallFailure == [kind |-> "exception", data |-> JNull]
Malformed == [kind |-> "malformed", data |-> JNull]
Json(data) == [kind |-> "json", data |-> data]

---------------------------------------------------------------------------
(* building_analyzer.py: documents and the document extractor *)

UNDETERMINED == <<"undetermined">>     \* the literal meaning "undetermined" (lines 189, 190)
MEDIUM == <<"medium">>                 \* the literal meaning "medium" (line 193)

\* What page.extract_text() does on one page: it returns text, returns
\* None, or raises
PageText(s) == [outcome |-> "text", s |-> s]
PageNone == [outcome |-> "none", s |-> <<>>]
PageRaises == [outcome |-> "raises", s |-> <<>>]

RECURSIVE JoinPages(_)
\* "".join(page.extract_text() or "" for page in reader.pages): an exception
\* of one page leaves the generator and the join
JoinPages(pages) ==
    IF pages = <<>> THEN Ok(<<>>)
    ELSE IF Head(pages).outcome = "raises" THEN Raise
    ELSE LET rest == JoinPages(Tail(pages)) IN
         IF rest.raised THEN Raise ELSE Ok(Head(pages).s \o rest.value)

\* One entry of scan_data_directory's result, with what the PDF parsers find
\* in the file: corrupt (neither parser can open it), its pages and the
\* number of its embedded images.
Document(corrupt, images) ==
    [ city |-> <<"city">>, category |-> <<"category">>,
      building_type |-> <<"type">>, building_name |-> <<"building">>,
      file |-> <<"report.pdf">>, corrupt |-> corrupt,
      pages |-> <<PageText(<<"report", " ", "text">>)>>, images |-> images ]

\* A corrupt file (no text, no images) and a readable file with MaxImages
\* images
Documents ==
    {Document(TRUE, 0), Document(FALSE, MaxImages)}

\* str(uuid.uuid4())[:12], a fresh identifier for the n-th document
uuid4(n) == <<"id", ToString(n)>>

\* datetime.now().isoformat() while the n-th document is handled
now(n) == <<"T", ToString(n)>>

\* A page of a PDF as fitz sees it: whether doc.load_page and
\* page.get_images succeed, and, for each embedded image in image_list
\* order, what happens to it: "saved", "extract_raises" (doc.extract_image
\* fails), "open_raises" (the image file cannot be created), "write_raises"
\* (the file is created and the write fails)
ImagePage(loads, images) == [loads |-> loads, images |-> images]

\* A page whose n images are all saved
AllSaved(n) == ImagePage(TRUE, [j \in 1..n |-> "saved"])

\* image_path for the image img_index of page page_num (both 0-based, as in
\* the loops); "uuid8" stands for the random image_id
ImagePath(prefix, page_num, img_index) ==
    prefix \o <<"page_", ToString(page_num + 1), "_img_", ToString(img_index + 1),
                "_", "uuid8", ".png">>

\* The state of the extraction: the paths appended, the files created, and
\* whether an exception has been raised
NoImages == [paths |-> <<>>, written |-> {}, failed |-> FALSE]

RECURSIVE ImageLoop(_, _, _, _, _)
\* The inner loop over image_list (lines 89-103), from image img_index on
ImageLoop(prefix, image_list, page_num, img_index, acc) ==
    IF img_index >= Len(image_list) THEN acc
    ELSE LET outcome == image_list[img_index + 1]
             image_path == ImagePath(prefix, page_num, img_index)
         IN  IF outcome = "saved"
             THEN ImageLoop(prefix, image_list, page_num, img_index + 1,
                            [ paths |-> Append(acc.paths, image_path),
                              written |-> acc.written \cup {image_path},
                              failed |-> FALSE ])
             ELSE IF outcome = "write_raises"
             THEN [acc EXCEPT !.written = @ \cup {image_path}, !.failed = TRUE]
             ELSE [acc EXCEPT !.failed = TRUE]

RECURSIVE PageLoop(_, _, _, _)
\* The loop over the pages (lines 85-103), from page page_num on
PageLoop(prefix, pages, page_num, acc) ==
    IF page_num >= Len(pages) THEN acc
    ELSE LET page == pages[page_num + 1] IN
         IF ~page.loads THEN [acc EXCEPT !.failed = TRUE]
         ELSE LET r == ImageLoop(prefix, page.images, page_num, 0, acc) IN
              IF r.failed THEN r ELSE PageLoop(prefix, pages, page_num + 1, r)

\* An extraction without the except branch: the exception leaves the
\* function and the list of paths is lost
SaveImages_NoCatch(prefix, doc) ==
    LET r == IF doc.corrupt THEN [NoImages EXCEPT !.failed = TRUE]
             ELSE PageLoop(prefix, doc.image_pages, 0, NoImages)
    IN  [ raised |-> r.failed, value |-> IF r.failed THEN <<>> ELSE r.paths,
          written |-> r.written ]

\* Lines 79-109 (main.py 40-67): the try around fitz.open and the loops;
\* the except branch prints, and image_paths is returned as it is then
SaveImages(prefix, doc) ==
    LET r == IF doc.corrupt THEN [NoImages EXCEPT !.failed = TRUE]
             ELSE PageLoop(prefix, doc.image_pages, 0, NoImages)
    IN  [raised |-> FALSE, value |-> r.paths, written |-> r.written]

\* extract_images_from_pdf(pdf_path, building_id): one path per saved image,
\* [] when fitz cannot open the file; the images of a document of the
\* pipeline are on its first page
extract_images_from_pdf(doc, building_id) ==
    SaveImages(<<"building_images/">> \o building_id \o <<"/">>,
               [corrupt |-> doc.corrupt, image_pages |-> <<AllSaved(doc.images)>>]).value

\* load_pdf_text(path): the joined text of the pages; "" when PyPDF2 cannot
\* read the file or anything in the try block raises
load_pdf_text(doc) ==
    IF doc.corrupt THEN <<>>
    ELSE LET text == JoinPages(doc.pages) IN IF text.raised THEN <<>> ELSE text.value

---------------------------------------------------------------------------
(* building_analyzer.py: extract_building_info_from_text *)

\* A fallback that takes category for city_name and city_name for category
FallbackRecord_Swapped(pdf_file, building_id, city_name, category, building_name, timestamp) ==
    [f \in {"building_id"} |-> Str(building_id)]
    @@ [f \in {"city_name"} |-> Str(category)]
    @@ [f \in {"building_category"} |-> Str(city_name)]
    @@ [f \in {"building_name"} |-> Str(building_name)]
    @@ [f \in {"pdf_filename"} |-> Str(pdf_file)]
    @@ [f \in {"processing_timestamp"} |-> Str(timestamp)]
    @@ [f \in {"structural_condition", "maintenance_status"} |-> Str(UNDETERMINED)]
    @@ [f \in {"safety_issues", "required_repairs"} |-> List(<<>>)]
    @@ [f \in {"priority_level"} |-> Str(MEDIUM)]

\* The except branch's "basic structure" (lines 182-194)
FallbackRecord(pdf_file, building_id, city_name, category, building_name, timestamp) ==
    [f \in {"building_id"} |-> Str(building_id)]
    @@ [f \in {"city_name"} |-> Str(city_name)]
    @@ [f \in {"building_category"} |-> Str(category)]
    @@ [f \in {"building_name"} |-> Str(building_name)]
    @@ [f \in {"pdf_filename"} |-> Str(pdf_file)]
    @@ [f \in {"processing_timestamp"} |-> Str(timestamp)]
    @@ [f \in {"structural_condition", "maintenance_status"} |-> Str(UNDETERMINED)]
    @@ [f \in {"safety_issues", "required_repairs"} |-> List(<<>>)]
    @@ [f \in {"priority_level"} |-> Str(MEDIUM)]

\* Model.model_validate_json(response.text or "{}"): the text must be JSON,
\* the JSON an object, the object valid for the model
model_validate_json(model, response) ==
    IF response.kind # "json" \/ response.data.t # "object" THEN Raise
    ELSE model_validate(model, response.data.obj)

\* extract_building_info_from_text(pdf_text, pdf_path, building_id, city_name,
\* category, building_name), given what the service does with the call
extract_building_info_from_text(pdf_text, pdf_file, building_id, city_name, category, building_name, timestamp, response) ==
    LET attempt == IF response.kind = "exception" THEN Raise
                   ELSE model_validate_json(BuildingInfo, response)
    IN  IF attempt.raised
        THEN FallbackRecord(pdf_file, building_id, city_name, category,
                            building_name, timestamp)
        ELSE attempt.value

---------------------------------------------------------------------------
(* building_analyzer.py: generate_building_suggestions *)

\* for suggestion_data in suggestions_data: the elements the loop visits,
\* raising when the value is not iterable.  A dict was wrapped in a list
\* before; the characters of a string are visited one by one.
Iterate(data) ==
    CASE data.t = "object" -> Ok(<<data>>)
      [] data.t = "array"  -> Ok(data.items)
      [] data.t = "string" -> Ok([j \in 1..data.len |-> JString(1)])
      [] OTHER             -> Raise

\* BuildingSuggestion.model_validate(suggestion_data)
validate_suggestion(item) ==
    IF item.t # "object" THEN Raise ELSE model_validate(BuildingSuggestion, item.obj)

\* A loop that gives up the whole list when one candidate fails validation
ValidSuggestions_AllOrNothing(items) ==
    IF \E j \in 1..Len(items) : validate_suggestion(items[j]).raised THEN <<>>
    ELSE [j \in 1..Len(items) |-> validate_suggestion(items[j]).value]

RECURSIVE ValidSuggestions(_)
\* The inner loop (lines 271-278): a candidate that fails validation is skipped
ValidSuggestions(items) ==
    IF items = <<>> THEN <<>>
    ELSE LET r == validate_suggestion(Head(items))
         IN  IF r.raised THEN ValidSuggestions(Tail(items))
             ELSE <<r.value>> \o ValidSuggestions(Tail(items))

\* generate_building_suggestions without its outer except
generate_building_suggestions_NoCatch(building_info, response) ==
    IF response.kind # "json" THEN Raise
    ELSE LET it == Iterate(response.data)
         IN  IF it.raised THEN Raise ELSE Ok(ValidSuggestions(it.value))

\* generate_building_suggestions(building_info), given what the service does
\* with the call: the outer except (lines 282-284) turns every failure into []
generate_building_suggestions(building_info, response) ==
    LET attempt ==
            IF response.kind # "json" THEN Raise
            ELSE LET it == Iterate(response.data)
                 IN  IF it.raised THEN Raise ELSE Ok(ValidSuggestions(it.value))
    IN  IF attempt.raised THEN Ok(<<>>) ELSE attempt

---------------------------------------------------------------------------
(* Output files *)

FileNames ==
    { "building_data/buildings.csv", "building_data/buildings_detailed.json",
      "ai_suggestions/suggestions.csv", "ai_suggestions/suggestions_detailed.json",
      "output/arabic_data.csv", "output/english_data.csv", "output/binary_data.csv" }

NoFile == [kind |-> "none", header |-> <<>>, rows |-> <<>>, objects |-> <<>>]
CsvFile(header, rows) == [kind |-> "csv", header |-> header, rows |-> rows, objects |-> <<>>]
JsonFile(objects) == [kind |-> "json", header |-> <<>>, rows |-> <<>>, objects |-> objects]

\* The text csv.writer puts in a cell: nothing for None, the string itself,
\* str(v) for anything else
CsvCell(v) == IF v.k = "null" THEN <<>> ELSE PyStr(v)

\* csv.DictWriter(fieldnames).writerow(row): one cell per column of the
\* header, in header order, restval "" where the row has no such key
writerow(fieldnames, row) ==
    [j \in 1..Len(fieldnames) |-> CsvCell(Get(row, fieldnames[j], Str(<<>>)))]

\* json.dump of one value: a list stays a list of strings
JsonOf(v) ==
    CASE v.k = "null" -> [t |-> "null", n |-> 0, s |-> <<>>, items |-> <<>>]
      [] v.k = "num"  -> [t |-> "number", n |-> v.n, s |-> <<>>, items |-> <<>>]
      [] v.k = "bool" -> [t |-> "boolean", n |-> v.n, s |-> <<>>, items |-> <<>>]
      [] v.k = "str"  -> [t |-> "string", n |-> 0, s |-> v.s, items |-> <<>>]
      [] OTHER        -> [t |-> "array", n |-> 0, s |-> <<>>, items |-> v.l]

\* json.dump(records, f)
json_dump(records) ==
    [j \in 1..Len(records) |-> [f \in DOMAIN records[j] |-> JsonOf(records[j][f])]]

\* The separator of save_building_data / save_suggestions_data: "; "
ListSeparator == <<";", " ">>

\* The row of save_building_data / save_suggestions_data (lines 404-410,
\* 446-452): lists are joined with "; ", a missing key gives ""
ListJoinedRow(record, field_names) ==
    [field \in Range(field_names) |->
        LET value == Get(record, field, Str(<<>>))
        IN  IF value.k = "list" THEN Str(Join(ListSeparator, value.l)) ELSE value]

\* A writer that drops the records lacking one of the header's columns
ListJoinedCsv_DropRagged(records) ==
    LET field_names == Sorted(AllFields(records))
        complete == SelectSeq(records, LAMBDA r : DOMAIN r = AllFields(records))
    IN  CsvFile(field_names,
                [j \in 1..Len(complete) |->
                    writerow(field_names, ListJoinedRow(complete[j], field_names))])

\* The CSV both save functions write: header = sorted union of the keys,
\* then one row per record
ListJoinedCsv(records) ==
    LET field_names == Sorted(AllFields(records))
    IN  CsvFile(field_names,
                [j \in 1..Len(records) |->
                    writerow(field_names, ListJoinedRow(records[j], field_names))])

\* save_building_data(buildings): nothing is written for an empty batch
save_building_data(buildings, fs) ==
    IF buildings = <<>> THEN fs
    ELSE [fs EXCEPT !["building_data/buildings.csv"] = ListJoinedCsv(buildings),
                    !["building_data/buildings_detailed.json"] = JsonFile(json_dump(buildings))]

\* A save_suggestions_data without the test of line 426: the files are
\* opened for writing whatever the batch holds
save_suggestions_data_Truncating(suggestions, fs) ==
    [fs EXCEPT !["ai_suggestions/suggestions.csv"] = ListJoinedCsv(suggestions),
               !["ai_suggestions/suggestions_detailed.json"] = JsonFile(json_dump(suggestions))]

\* save_suggestions_data(suggestions)
save_suggestions_data(suggestions, fs) ==
    IF suggestions = <<>> THEN fs
    ELSE [fs EXCEPT !["ai_suggestions/suggestions.csv"] = ListJoinedCsv(suggestions),
                    !["ai_suggestions/suggestions_detailed.json"] = JsonFile(json_dump(suggestions))]

---------------------------------------------------------------------------
(* What the service may answer (bounded families of responses) *)

\* A payload that echoes the context of the prompt's notes and leaves every
\* other field out, except building_type, which the prompt does not give
EchoPayload(pdf_file, building_id, city_name, category, building_name, timestamp) ==
    [f \in {"building_id"} |-> Str(building_id)]
    @@ [f \in {"city_name"} |-> Str(city_name)]
    @@ [f \in {"building_category"} |-> Str(category)]
    @@ [f \in {"building_name"} |-> Str(building_name)]
    @@ [f \in {"building_type"} |-> Str(<<"guessed">>)]
    @@ [f \in {"pdf_filename"} |-> Str(pdf_file)]
    @@ [f \in {"processing_timestamp"} |-> Str(timestamp)]

\* A payload with a value of the declared type for every field
FullPayload(pdf_file, building_id, city_name, category, building_name, timestamp) ==
    EchoPayload(pdf_file, building_id, city_name, category, building_name, timestamp)
    @@ [f \in DOMAIN BuildingInfo.types |->
            CASE BuildingInfo.types[f] = "str" -> Str(<<"found">>)
              [] BuildingInfo.types[f] = "num" -> Num(3)
              [] OTHER -> List(<< <<"crack">>, <<"leak">> >>)]

\* A payload that validates but takes its context from the report's text
\* instead of the prompt's notes
StrayPayload ==
    [f \in {"building_id"} |-> Str(<<"other">>)]
    @@ [f \in {"city_name"} |-> Str(<<"elsewhere">>)]
    @@ [f \in {"building_category"} |-> Str(<<"sound">>)]
    @@ [f \in {"building_name"} |-> Str(<<"annex">>)]
    @@ [f \in {"building_type"} |-> Str(<<"guessed">>)]
    @@ [f \in {"structural_condition"} |-> Str(<<"found">>)]

\* The responses of the extraction call tried in the pipeline
ExtractionResponses(pdf_file, building_id, city_name, category, building_name, timestamp) ==
    LET echo == EchoPayload(pdf_file, building_id, city_name, category, building_name, timestamp)
        full == FullPayload(pdf_file, building_id, city_name, category, building_name, timestamp)
    IN  { CallFailure, Malformed, Json(JObject(EmptyDict)), Json(JArray(<<>>)),
          Json(JObject(echo)), Json(JObject(full)),
          Json(JObject([full EXCEPT !["floors_count"] = Str(<<"three">>)])),
          Json(JObject(StrayPayload)) }

\* A candidate suggestion that validates: the required fields, and the
\* optional ones when detailed
Suggestion(building_id, n, detailed) ==
    [f \in {"building_id"} |-> Str(building_id)]
    @@ [f \in {"suggestion_id"} |-> Str(<<"s", ToString(n)>>)]
    @@ [f \in {"suggestion_type", "title", "description", "priority"} |-> Str(<<"text">>)]
    @@ IF detailed
       THEN [f \in {"benefits", "risks", "requirements"} |-> List(<< <<"one">>, <<"two">> >>)]
            @@ [f \in {"estimated_cost", "ai_confidence"} |-> Num(1)]
       ELSE EmptyDict

\* Candidates that do not validate: not an object, no field at all, a
\* required field missing, a value of the wrong type
Garbage ==
    { JNumber, JNull, JString(1), JObject(EmptyDict),
      JObject([f \in {"building_id", "title"} |-> Str(<<"text">>)]),
      JObject([Suggestion(<<"x">>, 0, TRUE) EXCEPT !["benefits"] = Num(1)]),
      JObject([Suggestion(<<"x">>, 0, FALSE) EXCEPT !["title"] = Null]) }

\* The responses of the suggestion call tried in the pipeline
SuggestionResponses(building_id) ==
    LET s1 == JObject(Suggestion(building_id, 1, TRUE))
        s2 == JObject(Suggestion(building_id, 2, FALSE))
    IN  { CallFailure, Malformed, Json(JNull), Json(JNumber), Json(JString(2)),
          Json(JArray(<<>>)), Json(s1), Json(JObject(EmptyDict)),
          Json(JArray(<<s1, s2>>)),
          Json(JArray(<<JObject(Suggestion(<<"other">>, 1, FALSE))>>)) }
        \cup {Json(JArray(<<s1, g, s2>>)) : g \in Garbage}

---------------------------------------------------------------------------
(* building_analyzer.py: process_buildings *)

RECURSIVE SeqsUpTo(_, _)
\* The sequences over S of length at most n
SeqsUpTo(S, n) ==
    IF n = 0 THEN {<<>>}
    ELSE LET shorter == SeqsUpTo(S, n - 1)
         IN  shorter \cup {Append(q, x) : q \in {r \in shorter : Len(r) = n - 1}, x \in S}

NoFiles == [name \in FileNames |-> NoFile]

\* After lines 335-339: the scanner has returned, both batches are empty
Init ==
    /\ prog = "building_analyzer"
    /\ pc = "loop"
    /\ building_files \in SeqsUpTo(Documents, MaxDocs)
    /\ i = 0
    /\ all_buildings = <<>>
    /\ all_suggestions = <<>>
    /\ files = NoFiles
    /\ arg = <<>>
    /\ ret = <<>>

\* The record all_buildings receives for doc, the n-th document, when the
\* extraction call does `response` (lines 344-361)
BuildingRecord(doc, n, response) ==
    LET building_id == uuid4(n)
        image_paths == extract_images_from_pdf(doc, building_id)
        pdf_text == load_pdf_text(doc)
        building_info ==
            extract_building_info_from_text(pdf_text, doc.file, building_id,
                doc.city, doc.category, doc.building_name, now(n), response)
    IN  Update(building_info,
               [f \in {"image_paths"} |-> List(image_paths)]
               @@ [f \in {"building_type"} |-> Str(doc.building_type)])

\* Lines 341-362: images, text, extraction, append
ProcessDocument ==
    /\ prog = "building_analyzer"
    /\ pc = "loop"
    /\ i < Len(building_files)
    /\ LET doc == building_files[i + 1] IN
       \E response \in ExtractionResponses(doc.file, uuid4(i + 1), doc.city,
                                           doc.category, doc.building_name, now(i + 1)) :
            all_buildings' = Append(all_buildings, BuildingRecord(doc, i + 1, response))
    /\ pc' = "suggest"
    /\ UNCHANGED <<prog, building_files, i, all_suggestions, files, arg, ret>>

\* Lines 364-367: the suggestions of the record just appended
GenerateSuggestions ==
    /\ prog = "building_analyzer"
    /\ pc = "suggest"
    /\ \E response \in SuggestionResponses(all_buildings[i + 1]["building_id"].s) :
         LET r == generate_building_suggestions(all_buildings[i + 1], response) IN
            /\ ret' = r
            /\ IF r.raised
               THEN /\ pc' = "crashed"
                    /\ UNCHANGED <<i, all_suggestions>>
               ELSE /\ pc' = "loop"
                    /\ i' = i + 1
                    /\ all_suggestions' = all_suggestions \o r.value
    /\ UNCHANGED <<prog, building_files, all_buildings, files, arg>>

\* A save_building_data that is called in every turn of the loop
SaveBuildingData_Streaming ==
    /\ prog = "building_analyzer"
    /\ pc = "loop"
    /\ files' = save_building_data(all_buildings, files)
    /\ pc' = IF i = Len(building_files) THEN "save_suggestions" ELSE "loop"
    /\ files' # files \/ pc' # pc
    /\ UNCHANGED <<prog, building_files, i, all_buildings, all_suggestions, arg, ret>>

\* Line 370: save_building_data(all_buildings)
SaveBuildingData ==
    /\ prog = "building_analyzer"
    /\ pc = "loop"
    /\ i = Len(building_files)
    /\ files' = save_building_data(all_buildings, files)
    /\ pc' = "save_suggestions"
    /\ UNCHANGED <<prog, building_files, i, all_buildings, all_suggestions, arg, ret>>

\* Line 371: save_suggestions_data(all_suggestions)
SaveSuggestionsData ==
    /\ prog = "building_analyzer"
    /\ pc = "save_suggestions"
    /\ files' = save_suggestions_data(all_suggestions, files)
    /\ pc' = "done"
    /\ UNCHANGED <<prog, building_files, i, all_buildings, all_suggestions, arg, ret>>

Next ==
    \/ ProcessDocument
    \/ GenerateSuggestions
    \/ SaveBuildingData
    \/ SaveSuggestionsData

Spec == Init /\ [][Next]_vars

---------------------------------------------------------------------------
(* Claims about process_buildings (specification Spec) *)

BuildingsCsv == files["building_data/buildings.csv"]

\* The fields the fallback record fills from the call's context
ContextFields ==
    {"building_id", "city_name", "building_category", "building_name",
     "pdf_filename", "processing_timestamp"}

\* The record of document j came from the except branch of the extraction
IsFallback(j) ==
    /\ "neighborhood" \notin DOMAIN all_buildings[j]
    /\ all_buildings[j]["structural_condition"] = Str(UNDETERMINED)

\* C1: once save_building_data has run, buildings.csv holds exactly one row
\* per scanned document, whatever happened to each document (extracted,
\* corrupt file, failed extraction); no outcome aborts the run, and an empty
\* batch writes no file.
C1_OneRowPerDocument ==
    /\ pc # "crashed"
    /\ (prog = "building_analyzer" /\ pc \in {"save_suggestions", "done"}) =>
          IF building_files = <<>>
          THEN BuildingsCsv = NoFile
          ELSE /\ BuildingsCsv.kind = "csv"
               /\ Len(BuildingsCsv.rows) = Len(building_files)

\* C1 witness: a finished run over two documents, one corrupt and one whose
\* extraction failed, one extracted, with two rows written
C1_Witness ==
    /\ pc = "done"
    /\ Len(building_files) = 2
    /\ building_files[1].corrupt /\ ~building_files[2].corrupt
    /\ IsFallback(2) /\ ~IsFallback(1)
    /\ Len(BuildingsCsv.rows) = 2

\* The cell of column `field` in row j of buildings.csv
Cell(j, field) ==
    LET col == CHOOSE h \in 1..Len(BuildingsCsv.header) : BuildingsCsv.header[h] = field
    IN  BuildingsCsv.rows[j][col]

\* C7 (the claim as stated): in a finished run the output has one row per
\* document and the row of every corrupt document has its image list empty,
\* its metadata (context) fields populated and every other schema field
\* empty, the fallback's own defaults being counted as empty.
C7_CorruptRowEmpty ==
    (prog = "building_analyzer" /\ pc = "done" /\ building_files # <<>>) =>
        /\ Len(BuildingsCsv.rows) = Len(building_files)
        /\ \A j \in 1..Len(building_files) :
              building_files[j].corrupt =>
                 /\ all_buildings[j]["image_paths"] = List(<<>>)
                 /\ \A f \in ContextFields \cup {"building_type"} : Cell(j, f) # <<>>
                 /\ \A f \in Range(BuildingsCsv.header) \ (ContextFields \cup {"building_type"}) :
                        Cell(j, f) \in {<<>>, UNDETERMINED, MEDIUM}

\* C10 (the claim as stated): every record handed to save_building_data has
\* every key of the BuildingInfo schema (which holds the metadata fields
\* building_id, pdf_filename and processing_timestamp).
C10_RecordHasSchemaKeys ==
    (prog = "building_analyzer" /\ pc \in {"save_suggestions", "done"}) =>
        \A j \in 1..Len(all_buildings) :
            DOMAIN BuildingInfo.types \subseteq DOMAIN all_buildings[j]

---------------------------------------------------------------------------
(* generate_building_suggestions on its own (specification SpecSuggest) *)

\* The records process_buildings can pass: every document and every
\* response of the extraction call in the family above
PipelineRecords ==
    { BuildingRecord(doc, 1, response) :
        doc \in Documents,
        response \in ExtractionResponses(<<"report.pdf">>, uuid4(1), <<"city">>,
                                         <<"category">>, <<"building">>, now(1)) }

\* The responses of the suggestion call tried on the function alone: those
\* of the pipeline, lists of garbage alone and of garbage before a valid
\* candidate, a list of six valid candidates, and candidates naming
\* another building
RichSuggestionResponses(building_id) ==
    SuggestionResponses(building_id)
    \cup {Json(JArray(<<g, g>>)) : g \in Garbage}
    \cup {Json(JArray(<<g, JObject(Suggestion(building_id, 1, TRUE))>>)) : g \in Garbage}
    \cup { Json(JArray([n \in 1..6 |-> JObject(Suggestion(building_id, n, FALSE))])),
           Json(JArray(<<JObject(Suggestion(<<"other">>, 1, FALSE))>>)),
           Json(JObject(Suggestion(<<"other">>, 1, TRUE))) }

InitSuggest ==
    /\ prog = "generate_building_suggestions"
    /\ pc = "call"
    /\ arg \in [building_info : PipelineRecords,
                response : RichSuggestionResponses(uuid4(1))]
    /\ ret = <<>>
    /\ building_files = <<>>
    /\ i = 0
    /\ all_buildings = <<>>
    /\ all_suggestions = <<>>
    /\ files = NoFiles

\* suggestions = generate_building_suggestions(building_info)
CallGenerateSuggestions ==
    /\ prog = "generate_building_suggestions"
    /\ pc = "call"
    /\ ret' = generate_building_suggestions(arg.building_info, arg.response)
    /\ pc' = IF ret'.raised THEN "crashed" ELSE "returned"
    /\ UNCHANGED <<prog, building_files, i, all_buildings, all_suggestions, files, arg>>

SpecSuggest == InitSuggest /\ [][CallGenerateSuggestions]_vars

\* The candidates a response offers (none when the call failed, the text is
\* not JSON or the JSON is neither a list nor an object)
Candidates(response) ==
    IF response.kind # "json" THEN <<>>
    ELSE IF response.data.t = "array" THEN response.data.items
    ELSE IF response.data.t = "object" THEN <<response.data>>
    ELSE <<>>

\* A candidate has the BuildingSuggestion shape
IsValidCandidate(item) ==
    /\ item.t = "object"
    /\ \A f \in BuildingSuggestion.required :
          f \in DOMAIN item.obj /\ item.obj[f].k = "str"
    /\ \A f \in DOMAIN item.obj \cap DOMAIN BuildingSuggestion.types :
          f \notin BuildingSuggestion.required =>
             item.obj[f] = Null \/ item.obj[f].k = BuildingSuggestion.types[f]

\* C8: generate_building_suggestions never raises: whatever the service does
\* (call failure, malformed JSON, JSON that is no list or object, an empty
\* list, a list of garbage) it returns a list, each element a record of the
\* BuildingSuggestion shape, and the list is empty when no candidate
\* validates.  (The function only reads its argument, the parent record.)
C8_SuggestionsNeverRaise ==
    /\ pc # "crashed"
    /\ (prog = "generate_building_suggestions" /\ pc = "returned") =>
          /\ ~ret.raised
          /\ DOMAIN ret.value = 1..Len(ret.value)
          /\ \A j \in 1..Len(ret.value) :
                DOMAIN ret.value[j] = DOMAIN BuildingSuggestion.types
          /\ (\A j \in 1..Len(Candidates(arg.response)) :
                 ~IsValidCandidate(Candidates(arg.response)[j]))
                => ret.value = <<>>

\* C8 witness: the function has returned [] for a JSON value that cannot be
\* iterated (a number)
C8_Witness ==
    /\ prog = "generate_building_suggestions" /\ pc = "returned"
    /\ arg.response = Json(JNumber)
    /\ ret = Ok(<<>>)

---------------------------------------------------------------------------
(* extract_building_info_from_text on its own (specification SpecExtract) *)

\* The values a payload may give a field
PayloadValues ==
    {Null, Num(3), Str(<<"found">>), List(<< <<"crack">>, <<"leak">> >>)}

\* The responses of the extraction call tried on the function alone: those
\* of the pipeline, and every payload that differs from a full or an echoing
\* payload in one field, dropped or given any value
RichExtractionResponses(pdf_file, building_id, city_name, category, building_name, timestamp) ==
    LET echo == EchoPayload(pdf_file, building_id, city_name, category, building_name, timestamp)
        full == FullPayload(pdf_file, building_id, city_name, category, building_name, timestamp)
    IN  ExtractionResponses(pdf_file, building_id, city_name, category, building_name, timestamp)
        \cup { Json(JObject([full EXCEPT ![f] = v])) :
                  f \in DOMAIN BuildingInfo.types, v \in PayloadValues }
        \cup { Json(JObject([g \in DOMAIN full \ {f} |-> full[g]])) :
                  f \in DOMAIN BuildingInfo.types }
        \cup { Json(JObject([g \in DOMAIN echo \ {f} |-> echo[g]])) : f \in DOMAIN echo }

InitExtract ==
    /\ prog = "extract_building_info_from_text"
    /\ pc = "call"
    /\ arg \in { [doc |-> doc, response |-> response] :
                    doc \in Documents,
                    response \in RichExtractionResponses(<<"report.pdf">>, uuid4(1),
                                    <<"city">>, <<"category">>, <<"building">>, now(1)) }
    /\ ret = <<>>
    /\ building_files = <<>>
    /\ i = 0
    /\ all_buildings = <<>>
    /\ all_suggestions = <<>>
    /\ files = NoFiles

\* building_info = extract_building_info_from_text(pdf_text, pdf_path,
\*                     building_id, city, category, building_name)
CallExtractBuildingInfo ==
    /\ prog = "extract_building_info_from_text"
    /\ pc = "call"
    /\ ret' = Ok(extract_building_info_from_text(load_pdf_text(arg.doc), arg.doc.file,
                    uuid4(1), arg.doc.city, arg.doc.category, arg.doc.building_name,
                    now(1), arg.response))
    /\ pc' = "returned"
    /\ UNCHANGED <<prog, building_files, i, all_buildings, all_suggestions, files, arg>>

SpecExtract == InitExtract /\ [][CallExtractBuildingInfo]_vars

\* The extraction call failed: the service raised, its text is not JSON, or
\* the JSON does not validate against BuildingInfo
ExtractionFailed(response) ==
    \/ response.kind # "json"
    \/ response.data.t # "object"
    \/ \E f \in BuildingInfo.required :
          f \notin DOMAIN response.data.obj \/ response.data.obj[f].k # "str"
    \/ \E f \in DOMAIN response.data.obj \cap DOMAIN BuildingInfo.types :
          /\ response.data.obj[f] # Null
          /\ response.data.obj[f].k # BuildingInfo.types[f]

\* C9: whenever the extraction call fails, extract_building_info_from_text
\* returns a record whose context fields hold the call's arguments
\* (building_id, city_name, building_category, building_name, the base name
\* of pdf_path) and the time of the call, whose structural_condition and
\* maintenance_status hold the "undetermined" literal and whose
\* priority_level holds the "medium" literal, and in which every other
\* BuildingInfo field is absent, null or an empty list.
C9_FallbackRecord ==
    (prog = "extract_building_info_from_text" /\ pc = "returned"
        /\ ExtractionFailed(arg.response)) =>
       LET r == ret.value IN
          /\ DOMAIN r \subseteq DOMAIN BuildingInfo.types
          /\ ContextFields \cup {"structural_condition", "maintenance_status",
                                 "priority_level"} \subseteq DOMAIN r
          /\ r["building_id"] = Str(uuid4(1))
          /\ r["city_name"] = Str(arg.doc.city)
          /\ r["building_category"] = Str(arg.doc.category)
          /\ r["building_name"] = Str(arg.doc.building_name)
          /\ r["pdf_filename"] = Str(arg.doc.file)
          /\ r["processing_timestamp"] = Str(now(1))
          /\ r["structural_condition"] = Str(UNDETERMINED)
          /\ r["maintenance_status"] = Str(UNDETERMINED)
          /\ r["priority_level"] = Str(MEDIUM)
          /\ \A f \in DOMAIN r \ (ContextFields \cup {"structural_condition",
                                    "maintenance_status", "priority_level"}) :
                r[f] \in {Null, List(<<>>)}

\* C9 witness: the call returned a payload whose floors_count is a string,
\* and the fallback record came back
C9_Witness ==
    /\ prog = "extract_building_info_from_text" /\ pc = "returned"
    /\ arg.response.kind = "json"
    /\ arg.response.data.t = "object"
    /\ "floors_count" \in DOMAIN arg.response.data.obj
    /\ arg.response.data.obj["floors_count"].k = "str"
    /\ ret.value["priority_level"] = Str(MEDIUM)
    /\ "floors_count" \notin DOMAIN ret.value

---------------------------------------------------------------------------
(* main.py: the writers *)

\* A binarization that counts any number but zero as present
Binarize_NonZero(value) ==
    IF value.k \in {"num", "bool"} THEN (IF value.n # 0 THEN Num(1) ELSE Num(0))
    ELSE IF value.k = "str" /\ value.s # <<>>
         THEN (IF Strip(value.s) # <<>> THEN Num(1) ELSE Num(0))
    ELSE Num(0)

\* A binarization that leaves a positive number as it is
Binarize_KeepNumber(value) ==
    IF value.k \in {"num", "bool"} THEN (IF value.n > 0 THEN Num(value.n) ELSE Num(0))
    ELSE IF value.k = "str" /\ value.s # <<>>
         THEN (IF Strip(value.s) # <<>> THEN Num(1) ELSE Num(0))
    ELSE Num(0)

\* The 0/1 of one value (lines 209-217): a number (a bool is one) gives 1
\* iff it is > 0, a non-empty string 1 iff something is left after strip(),
\* anything else 0
Binarize(value) ==
    IF value.k \in {"num", "bool"} THEN (IF value.n > 0 THEN Num(1) ELSE Num(0))
    ELSE IF value.k = "str" /\ value.s # <<>>
         THEN (IF Strip(value.s) # <<>> THEN Num(1) ELSE Num(0))
    ELSE Num(0)

\* convert_to_binary_data(data)
convert_to_binary_data(data) == [key \in DOMAIN data |-> Binarize(data[key])]

\* save_language_csv(results, output_file, language)
save_language_csv(results, output_file, fs) ==
    IF results = <<>> THEN fs
    ELSE LET field_names == Sorted(AllFields(results))
         IN  [fs EXCEPT ![output_file] =
                CsvFile(field_names,
                        [j \in 1..Len(results) |->
                            writerow(field_names,
                                [field \in Range(field_names) |->
                                    Get(results[j], field, Str(<<>>))])])]

\* save_binary_csv with the columns of the first record only
save_binary_csv_FirstKeys(results, output_file, fs) ==
    IF results = <<>> THEN fs
    ELSE LET field_names == Sorted(DOMAIN results[1])
         IN  [fs EXCEPT ![output_file] =
                CsvFile(field_names,
                        [j \in 1..Len(results) |->
                            LET binary_row == convert_to_binary_data(results[j])
                            IN  writerow(field_names,
                                    [field \in Range(field_names) |->
                                        Get(binary_row, field, Num(0))])])]

\* save_binary_csv(results, output_file)
save_binary_csv(results, output_file, fs) ==
    IF results = <<>> THEN fs
    ELSE LET field_names == Sorted(AllFields(results))
         IN  [fs EXCEPT ![output_file] =
                CsvFile(field_names,
                        [j \in 1..Len(results) |->
                            LET binary_row == convert_to_binary_data(results[j])
                            IN  writerow(field_names,
                                    [field \in Range(field_names) |->
                                        Get(binary_row, field, Num(0))])])]

\* result.get("detected_language") == "arabic"
IsArabic(result) == Get(result, "detected_language", Null) = Str(<<"arabic">>)

\* A save_to_csv_files that puts every record in the English file
save_to_csv_files_AllEnglish(results, fs) ==
    IF results = <<>> THEN fs
    ELSE LET arabic_results == SelectSeq(results, IsArabic)
             fs1 == IF arabic_results # <<>>
                    THEN save_language_csv(arabic_results, "output/arabic_data.csv", fs)
                    ELSE fs
             fs2 == save_language_csv(results, "output/english_data.csv", fs1)
         IN  save_binary_csv(results, "output/binary_data.csv", fs2)

\* save_to_csv_files(results)
save_to_csv_files(results, fs) ==
    IF results = <<>> THEN fs
    ELSE LET arabic_results == SelectSeq(results, IsArabic)
             english_results == SelectSeq(results, LAMBDA r : ~IsArabic(r))
             fs1 == IF arabic_results # <<>>
                    THEN save_language_csv(arabic_results, "output/arabic_data.csv", fs)
                    ELSE fs
             fs2 == IF english_results # <<>>
                    THEN save_language_csv(english_results, "output/english_data.csv", fs1)
                    ELSE fs1
         IN  save_binary_csv(results, "output/binary_data.csv", fs2)

---------------------------------------------------------------------------
(* The writers on batches of records with differing keys (SpecWriters) *)

\* Records over three keys, each present or not: a language tag, a string
\* or null, a list of strings
WriterRecords ==
    { Update(Update(lang, name), issues) :
        lang \in {EmptyDict} \cup {[f \in {"detected_language"} |-> Str(<<w>>)] : w \in {"arabic", "english"}},
        name \in {EmptyDict} \cup {[f \in {"company_name"} |-> v] : v \in {Null, Str(<<"acme">>)}},
        issues \in {EmptyDict, [f \in {"safety_issues"} |-> List(<< <<"crack">>, <<"leak">> >>)]} }

InitWriters ==
    /\ prog = "writers"
    /\ pc = "start"
    /\ all_buildings \in SeqsUpTo(WriterRecords, MaxDocs)
    /\ building_files = <<>>
    /\ i = 0
    /\ all_suggestions = <<>>
    /\ files = NoFiles
    /\ arg = <<>>
    /\ ret = <<>>

\* save_building_data(batch)
WriteBuildingData ==
    /\ prog = "writers" /\ pc = "start"
    /\ files' = save_building_data(all_buildings, files)
    /\ pc' = "buildings_written"
    /\ UNCHANGED <<prog, building_files, i, all_buildings, all_suggestions, arg, ret>>

\* save_suggestions_data(batch)
WriteSuggestionsData ==
    /\ prog = "writers" /\ pc = "buildings_written"
    /\ files' = save_suggestions_data(all_buildings, files)
    /\ pc' = "suggestions_written"
    /\ UNCHANGED <<prog, building_files, i, all_buildings, all_suggestions, arg, ret>>

\* save_to_csv_files(batch)
WriteCsvFiles ==
    /\ prog = "writers" /\ pc = "suggestions_written"
    /\ files' = save_to_csv_files(all_buildings, files)
    /\ pc' = "written"
    /\ UNCHANGED <<prog, building_files, i, all_buildings, all_suggestions, arg, ret>>

NextWriters ==
    \/ WriteBuildingData
    \/ WriteSuggestionsData
    \/ WriteCsvFiles

SpecWriters == InitWriters /\ [][NextWriters]_vars

\* The position of a field name in Python's string order
Rank(f) == CHOOSE r \in 1..Len(FieldOrder) : FieldOrder[r] = f

\* The union of the keys of the records of a batch
KeyUnion(records) == {f \in Range(FieldOrder) : \E j \in 1..Len(records) : f \in DOMAIN records[j]}

\* The records of a batch tagged Arabic, and the others
ArabicPart(records) ==
    SelectSeq(records, LAMBDA r : "detected_language" \in DOMAIN r
                                    /\ r["detected_language"] = Str(<<"arabic">>))
EnglishPart(records) ==
    SelectSeq(records, LAMBDA r : ~("detected_language" \in DOMAIN r
                                      /\ r["detected_language"] = Str(<<"arabic">>)))

\* File `name` is the CSV of `records`: its header is the sorted union of
\* their keys, and it has one row per record with one cell per column,
\* empty where the record lacks the column
SortedUnionCsv(name, records) ==
    LET f == files[name] IN
    /\ f.kind = "csv"
    /\ Range(f.header) = KeyUnion(records)
    /\ \A a, b \in 1..Len(f.header) : a < b => Rank(f.header[a]) < Rank(f.header[b])
    /\ Len(f.rows) = Len(records)
    /\ \A j \in 1..Len(records) :
          /\ Len(f.rows[j]) = Len(f.header)
          /\ \A h \in 1..Len(f.header) :
                f.header[h] \notin DOMAIN records[j] => f.rows[j][h] = <<>>

\* C2: for every non-empty batch (partition) of records with possibly
\* different key sets, the CSV written by save_building_data,
\* save_suggestions_data and save_language_csv has the lexicographically
\* sorted union of the records' keys as header and a cell for every header
\* column in every row, empty where the record lacks the key.
C2_HeaderIsSortedUnion ==
    (prog = "writers" /\ pc = "written" /\ all_buildings # <<>>) =>
        /\ SortedUnionCsv("building_data/buildings.csv", all_buildings)
        /\ SortedUnionCsv("ai_suggestions/suggestions.csv", all_buildings)
        /\ ArabicPart(all_buildings) # <<>> =>
              SortedUnionCsv("output/arabic_data.csv", ArabicPart(all_buildings))
        /\ EnglishPart(all_buildings) # <<>> =>
              SortedUnionCsv("output/english_data.csv", EnglishPart(all_buildings))

\* C2 witness: all writers have run on two records with different keys in
\* the same (English) partition; the header has a column one record lacks
C2_Witness ==
    /\ prog = "writers" /\ pc = "written"
    /\ Len(all_buildings) = 2
    /\ DOMAIN all_buildings[1] = {"company_name"}
    /\ DOMAIN all_buildings[2] = {"safety_issues"}
    /\ files["output/english_data.csv"].header = <<"company_name", "safety_issues">>
    /\ files["building_data/buildings.csv"].rows[1][2] = <<>>

---------------------------------------------------------------------------
(* main.py: per-document processing *)

\* possible_fields of generate_random_csv_structure, in dict order (lines
\* 109-130 and 86-107); "ar_x" stands for the Arabic name
EnglishPool ==
    << "company_name", "document_type", "filing_date", "fiscal_year",
       "total_revenue", "net_income", "total_assets", "employee_count",
       "auditor_name", "ceo_name", "industry_sector", "business_summary",
       "risk_count", "page_count", "image_count", "processing_timestamp",
       "confidence_score", "document_size_mb", "extraction_status", "key_metrics" >>

ArabicPool ==
    << "ar_company_name", "ar_document_type", "ar_filing_date", "ar_fiscal_year",
       "ar_total_revenue", "ar_net_income", "ar_total_assets", "ar_employee_count",
       "ar_auditor_name", "ar_ceo_name", "ar_industry_sector", "ar_business_summary",
       "ar_risk_count", "ar_page_count", "ar_image_count", "ar_processing_timestamp",
       "ar_confidence_score", "ar_document_size_mb", "ar_extraction_status",
       "ar_key_metrics" >>

possible_fields(language) == IF language = <<"arabic">> THEN ArabicPool ELSE EnglishPool

MinFields == 8        \* random.randint(8, 12)
MaxFields == 12

\* Two of the field sets generate_random_csv_structure(language) can
\* return: the samples of MinFields names that are consecutive in the pool,
\* starting at its head and MaxOffset names into it
SampledStructures(language) ==
    { {possible_fields(language)[o + j] : j \in 1..MinFields} : o \in {0, MaxOffset} }

\* The names the type heuristic of analyze_pdf_with_ai (lines 148-153) types
\* as float: no date token, and a token among revenue, income, assets,
\* count, score, size or their Arabic equivalents
NumericFields ==
    { "total_revenue", "net_income", "total_assets", "employee_count", "risk_count",
      "page_count", "image_count", "confidence_score", "document_size_mb",
      "ar_total_revenue", "ar_net_income", "ar_total_assets", "ar_employee_count",
      "ar_risk_count", "ar_page_count", "ar_image_count", "ar_confidence_score",
      "ar_document_size_mb" }

\* DynamicModel: every field Optional, float for the numeric names, str for
\* the others
DynamicModel(csv_structure) ==
    [ required |-> {},
      types |-> [f \in csv_structure |-> IF f \in NumericFields THEN "num" ELSE "str"] ]

\* analyze_pdf_with_ai(pdf_text, pdf_path, client, language) for the sampled
\* csv_structure, given what the service does with the call
analyze_pdf_with_ai(csv_structure, response) ==
    LET attempt == IF response.kind = "exception" THEN Raise
                   ELSE model_validate_json(DynamicModel(csv_structure), response)
    IN  IF attempt.raised THEN [field \in csv_structure |-> Null] ELSE attempt.value

\* One PDF of the directory with what the parsers find in it: corrupt
\* (neither parser can open it), its one page in the given language, the number of
\* its embedded images
PdfDocument(corrupt, language, images) ==
    [ file |-> <<"doc.pdf">>, corrupt |-> corrupt,
      pages |-> IF language = "arabic" THEN <<PageText(<<"arabic-script", " ", "text">>)>>
                ELSE <<PageText(<<"latin", " ", "text">>)>>,
      images |-> images, size_mb |-> 2 ]

PdfDocuments ==
    {PdfDocument(TRUE, "english", 0), PdfDocument(TRUE, "arabic", 0)}
    \cup {PdfDocument(FALSE, l, k) : l \in {"arabic", "english"}, k \in {0, MaxImages}}

\* detect_language(text): "arabic" iff the text has an Arabic-script character
detect_language(text) ==
    IF \E j \in 1..Len(text) : text[j] = "arabic-script" THEN <<"arabic">> ELSE <<"english">>

\* main.py's extract_images_from_pdf(pdf_path, "extracted_images")
main_extract_images_from_pdf(doc) ==
    SaveImages(<<"extracted_images/", "doc", "_">>,
               [corrupt |-> doc.corrupt, image_pages |-> <<AllSaved(doc.images)>>]).value

\* load_file(path): the same code as building_analyzer's load_pdf_text
load_file(doc) ==
    IF doc.corrupt THEN <<>>
    ELSE LET text == JoinPages(doc.pages) IN IF text.raised THEN <<>> ELSE text.value

\* The separator of line 254: ";"
PathSeparator == <<";">>

\* The record results receives for doc, the n-th PDF (lines 235-257)
PdfRecord(doc, n, csv_structure, response) ==
    LET image_paths == main_extract_images_from_pdf(doc)
        pdf_text == load_file(doc)
        language == detect_language(pdf_text)
        analysis_result == analyze_pdf_with_ai(csv_structure, response)
    IN  Update(analysis_result,
               [f \in {"pdf_filename"} |-> Str(doc.file)]
               @@ [f \in {"detected_language"} |-> Str(language)]
               @@ [f \in {"image_count"} |-> Num(Len(image_paths))]
               @@ [f \in {"image_paths"} |-> Str(Join(PathSeparator, image_paths))]
               @@ [f \in {"processing_timestamp"} |-> Str(now(n))]
               @@ [f \in {"document_size_mb"} |-> Num(doc.size_mb)])

\* The responses of the extraction call tried in main.py's pipeline: a
\* failed call, text that is not JSON, an empty object, a value of the
\* declared type for every field, a string for every field
MainResponses(csv_structure) ==
    { CallFailure, Malformed, Json(JObject(EmptyDict)),
      Json(JObject([f \in csv_structure |->
                        IF f \in NumericFields THEN Num(7) ELSE Str(<<"found">>)])),
      Json(JObject([f \in csv_structure |-> Str(<<"found">>)])) }

---------------------------------------------------------------------------
(* main.py: main (specification SpecMain) *)

InitMain ==
    /\ prog = "main"
    /\ pc = "loop"
    /\ building_files \in SeqsUpTo(PdfDocuments, MaxDocs)
    /\ i = 0
    /\ all_buildings = <<>>
    /\ all_suggestions = <<>>
    /\ files = NoFiles
    /\ arg = <<>>
    /\ ret = <<>>

\* One turn of the loop of process_pdfs_in_directory (lines 231-260)
ProcessPdf ==
    /\ prog = "main"
    /\ pc = "loop"
    /\ i < Len(building_files)
    /\ LET doc == building_files[i + 1] IN
       \E csv_structure \in SampledStructures(detect_language(load_file(doc))) :
       \E response \in MainResponses(csv_structure) :
            all_buildings' = Append(all_buildings, PdfRecord(doc, i + 1, csv_structure, response))
    /\ i' = i + 1
    /\ UNCHANGED <<prog, pc, building_files, all_suggestions, files, arg, ret>>

\* main(), lines 356-358: if results: save_to_csv_files(results)
SaveToCsvFiles ==
    /\ prog = "main"
    /\ pc = "loop"
    /\ i = Len(building_files)
    /\ files' = IF all_buildings # <<>> THEN save_to_csv_files(all_buildings, files) ELSE files
    /\ pc' = "done"
    /\ UNCHANGED <<prog, building_files, i, all_buildings, all_suggestions, arg, ret>>

NextMain ==
    \/ ProcessPdf
    \/ SaveToCsvFiles

SpecMain == InitMain /\ [][NextMain]_vars

---------------------------------------------------------------------------
(* Claims about main.py's run (specification SpecMain) *)

ArabicCsv == files["output/arabic_data.csv"]
EnglishCsv == files["output/english_data.csv"]
BinaryCsv == files["output/binary_data.csv"]

\* C4 (the claim as stated): the binary CSV and every language CSV written
\* for the same batch have the same header.
C4_SameHeader ==
    (prog = "main" /\ pc = "done") =>
        /\ ArabicCsv.kind = "csv" => ArabicCsv.header = BinaryCsv.header
        /\ EnglishCsv.kind = "csv" => EnglishCsv.header = BinaryCsv.header

\* C4 (amended): the header of the binary CSV is the sorted union of the keys
\* of the whole batch, and the header of each language CSV is the binary
\* header restricted, in the same order, to the keys occurring in that
\* language's partition; the two are equal exactly when the partition has
\* every key of the batch.
C4_HeaderIsRestriction ==
    (prog = "main" /\ pc = "done" /\ all_buildings # <<>>) =>
        /\ BinaryCsv.kind = "csv"
        /\ Range(BinaryCsv.header) = KeyUnion(all_buildings)
        /\ \A a, b \in 1..Len(BinaryCsv.header) :
              a < b => Rank(BinaryCsv.header[a]) < Rank(BinaryCsv.header[b])
        /\ ArabicCsv.kind = "csv" =>
              /\ ArabicCsv.header =
                    SelectSeq(BinaryCsv.header,
                              LAMBDA f : f \in KeyUnion(ArabicPart(all_buildings)))
              /\ (ArabicCsv.header = BinaryCsv.header)
                    <=> (KeyUnion(ArabicPart(all_buildings)) = KeyUnion(all_buildings))
        /\ EnglishCsv.kind = "csv" =>
              /\ EnglishCsv.header =
                    SelectSeq(BinaryCsv.header,
                              LAMBDA f : f \in KeyUnion(EnglishPart(all_buildings)))
              /\ (EnglishCsv.header = BinaryCsv.header)
                    <=> (KeyUnion(EnglishPart(all_buildings)) = KeyUnion(all_buildings))

\* C4 witness: an Arabic and an English document have been processed and
\* written; the Arabic header lacks columns of the binary header
C4_Witness ==
    /\ prog = "main" /\ pc = "done"
    /\ ArabicCsv.kind = "csv" /\ EnglishCsv.kind = "csv"
    /\ Len(ArabicCsv.header) < Len(BinaryCsv.header)
    /\ "ar_company_name" \in Range(ArabicCsv.header)
    /\ "company_name" \in Range(BinaryCsv.header)
    /\ "company_name" \notin Range(ArabicCsv.header)

\* The row of the j-th record in the CSV of its language
LanguageRow(j) ==
    LET same == {k \in 1..j : IsArabic(all_buildings[k]) = IsArabic(all_buildings[j])}
        f == IF IsArabic(all_buildings[j]) THEN ArabicCsv ELSE EnglishCsv
    IN  [header |-> f.header, cells |-> f.rows[Cardinality(same)]]

\* C6 (the claim as stated, for the list of extracted image paths): in the
\* CSV view the list of the image paths extracted from a document is the
\* string of its elements joined with "; ".
C6_ImagePathsJoined ==
    (prog = "main" /\ pc = "done") =>
        \A j \in 1..Len(all_buildings) :
            LET row == LanguageRow(j)
                col == CHOOSE h \in 1..Len(row.header) : row.header[h] = "image_paths"
            IN  row.cells[col] =
                    Join(ListSeparator, main_extract_images_from_pdf(building_files[j]))

---------------------------------------------------------------------------
(* convert_to_binary_data and save_binary_csv on values of every kind      *)
(* (specification SpecBinary)                                              *)

\* Values of every kind: null, numbers below, at and above zero, booleans,
\* strings (empty, blank, padded, plain), lists (empty and not)
BinaryValues ==
    { Null, Num(0 - 3), Num(0), Num(2), Bool(TRUE), Bool(FALSE),
      Str(<<>>), Str(<<" ">>), Str(<<" ", "x", " ">>), Str(<<"x">>),
      List(<<>>), List(<< <<"a">> >>) }

\* Records over two keys, each present or not
BinaryRecords ==
    { Update(a, b) :
        a \in {EmptyDict} \cup {[f \in {"company_name"} |-> v] : v \in BinaryValues},
        b \in {EmptyDict, [f \in {"image_count"} |-> Num(2)]} }

InitBinary ==
    /\ prog = "convert_to_binary_data"
    /\ pc = "start"
    /\ all_buildings \in SeqsUpTo(BinaryRecords, MaxDocs)
    /\ building_files = <<>>
    /\ i = 0
    /\ all_suggestions = <<>>
    /\ files = NoFiles
    /\ arg = <<>>
    /\ ret = <<>>

\* binary_row = convert_to_binary_data(result), for every record of the batch
ConvertToBinary ==
    /\ prog = "convert_to_binary_data" /\ pc = "start"
    /\ arg' = all_buildings
    /\ ret' = [j \in 1..Len(all_buildings) |-> convert_to_binary_data(all_buildings[j])]
    /\ pc' = "converted"
    /\ UNCHANGED <<prog, building_files, i, all_buildings, all_suggestions, files>>

\* convert_to_binary_data applied to its own output
ConvertAgain ==
    /\ prog = "convert_to_binary_data" /\ pc = "converted"
    /\ arg' = ret
    /\ ret' = [j \in 1..Len(ret) |-> convert_to_binary_data(ret[j])]
    /\ pc' = "reconverted"
    /\ UNCHANGED <<prog, building_files, i, all_buildings, all_suggestions, files>>

\* save_binary_csv(results, "output/binary_data.csv")
SaveBinaryCsv ==
    /\ prog = "convert_to_binary_data" /\ pc = "reconverted"
    /\ files' = save_binary_csv(all_buildings, "output/binary_data.csv", files)
    /\ pc' = "saved"
    /\ UNCHANGED <<prog, building_files, i, all_buildings, all_suggestions, arg, ret>>

NextBinary ==
    \/ ConvertToBinary
    \/ ConvertAgain
    \/ SaveBinaryCsv

SpecBinary == InitBinary /\ [][NextBinary]_vars

\* The rule of the binarized view: a number strictly above zero, or a string
\* with something other than whitespace in it
CountsAsOne(v) ==
    \/ v.k \in {"num", "bool"} /\ v.n > 0
    \/ v.k = "str" /\ \E j \in 1..Len(v.s) : v.s[j] # " "

\* C3: convert_to_binary_data maps a numeric value to 1 iff it is strictly
\* greater than 0, a string to 1 iff it is non-empty after trimming, null to
\* 0 (and every other value to 0), and save_binary_csv writes that 0/1 in
\* each cell and 0 for every header column the record lacks.
C3_BinaryRule ==
    /\ (prog = "convert_to_binary_data" /\ pc = "converted") =>
          \A j \in 1..Len(all_buildings) :
             /\ DOMAIN ret[j] = DOMAIN all_buildings[j]
             /\ \A f \in DOMAIN all_buildings[j] :
                   ret[j][f] = IF CountsAsOne(all_buildings[j][f]) THEN Num(1) ELSE Num(0)
    /\ (prog = "convert_to_binary_data" /\ pc = "saved" /\ all_buildings # <<>>) =>
          /\ BinaryCsv.kind = "csv"
          /\ Len(BinaryCsv.rows) = Len(all_buildings)
          /\ \A j \in 1..Len(all_buildings) :
                /\ Len(BinaryCsv.rows[j]) = Len(BinaryCsv.header)
                /\ \A h \in 1..Len(BinaryCsv.header) :
                      BinaryCsv.rows[j][h] =
                         IF /\ BinaryCsv.header[h] \in DOMAIN all_buildings[j]
                            /\ CountsAsOne(all_buildings[j][BinaryCsv.header[h]])
                         THEN <<"1">> ELSE <<"0">>

\* C3 witness: the binary CSV of a blank string and of a record that lacks
\* that column but has a positive number
C3_Witness ==
    /\ prog = "convert_to_binary_data" /\ pc = "saved"
    /\ Len(all_buildings) = 2
    /\ all_buildings[1] = [f \in {"company_name"} |-> Str(<<" ">>)]
    /\ all_buildings[2] = [f \in {"image_count"} |-> Num(2)]
    /\ BinaryCsv.header = <<"company_name", "image_count">>
    /\ BinaryCsv.rows = << << <<"0">>, <<"0">> >>, << <<"0">>, <<"1">> >> >>

\* C5: convert_to_binary_data is total (for every key of the record it
\* gives 0 or 1, whatever the kind of the value) and idempotent (applied to
\* its own output it returns that output).
C5_TotalIdempotent ==
    /\ (prog = "convert_to_binary_data" /\ pc \in {"converted", "reconverted", "saved"}) =>
          /\ Len(ret) = Len(all_buildings)
          /\ \A j \in 1..Len(ret) :
                /\ DOMAIN ret[j] = DOMAIN all_buildings[j]
                /\ \A f \in DOMAIN ret[j] : ret[j][f] \in {Num(0), Num(1)}
    /\ (prog = "convert_to_binary_data" /\ pc \in {"reconverted", "saved"}) => ret = arg

\* C5 witness: a record holding a list and a number has been converted
\* twice, to the same 0/1 record
C5_Witness ==
    /\ prog = "convert_to_binary_data" /\ pc = "reconverted"
    /\ Len(all_buildings) = 1
    /\ DOMAIN all_buildings[1] = {"company_name", "image_count"}
    /\ all_buildings[1]["company_name"] = List(<< <<"a">> >>)
    /\ ret[1]["company_name"] = Num(0) /\ ret[1]["image_count"] = Num(1)
    /\ arg = ret

---------------------------------------------------------------------------
(* Further claims about process_buildings (specification Spec) *)

\* C11 (the claim as stated): every record of the batch carries the city,
\* category, building type and building name the scanner found for its
\* document, whatever the extraction call returned.
C11_TagsFromScanner ==
    prog = "building_analyzer" =>
       \A j \in 1..Len(all_buildings) :
          /\ Get(all_buildings[j], "city_name", Null) = Str(building_files[j].city)
          /\ Get(all_buildings[j], "building_category", Null) = Str(building_files[j].category)
          /\ Get(all_buildings[j], "building_type", Null) = Str(building_files[j].building_type)
          /\ Get(all_buildings[j], "building_name", Null) = Str(building_files[j].building_name)

\* C12 (the claim as stated): every record of the suggestions batch names,
\* as its building_id, the building_id of a record already in the buildings
\* batch.
C12_SuggestionReferencesRecord ==
    prog = "building_analyzer" =>
       \A k \in 1..Len(all_suggestions) :
          \E j \in 1..Len(all_buildings) :
             all_suggestions[k]["building_id"] = Get(all_buildings[j], "building_id", Null)

---------------------------------------------------------------------------
(* Further claims about generate_building_suggestions (specification       *)
(* SpecSuggest)                                                            *)

\* C13 (the claim as stated): generate_building_suggestions returns at most
\* 5 suggestion records, whatever the service returns.
C13_AtMostFive ==
    (prog = "generate_building_suggestions" /\ pc = "returned") =>
        Len(ret.value) <= 5

\* The valid candidates of a response, in the order of the response
ValidCandidates(response) == SelectSeq(Candidates(response), IsValidCandidate)

\* C15: generate_building_suggestions returns exactly the candidates of the
\* response that have the BuildingSuggestion shape, in their original
\* order, each with the values the candidate gave (null for an optional
\* field it left out); a response that is one object counts as a list of
\* that one candidate.
C15_ValidCandidatesInOrder ==
    (prog = "generate_building_suggestions" /\ pc = "returned") =>
        LET valid == ValidCandidates(arg.response) IN
           /\ Len(ret.value) = Len(valid)
           /\ \A k \in 1..Len(valid) :
                 \A f \in DOMAIN BuildingSuggestion.types :
                    ret.value[k][f] =
                       IF f \in DOMAIN valid[k].obj THEN valid[k].obj[f] ELSE Null

\* C15 witness: a list of a valid candidate, an invalid one and another
\* valid one came back as the two valid ones, in that order
C15_Witness ==
    /\ prog = "generate_building_suggestions" /\ pc = "returned"
    /\ arg.response.kind = "json"
    /\ arg.response.data.t = "array"
    /\ Len(arg.response.data.items) = 3
    /\ IsValidCandidate(arg.response.data.items[1])
    /\ ~IsValidCandidate(arg.response.data.items[2])
    /\ IsValidCandidate(arg.response.data.items[3])
    /\ Len(ret.value) = 2
    /\ ret.value[1]["suggestion_id"] = Str(<<"s", "1">>)
    /\ ret.value[2]["suggestion_id"] = Str(<<"s", "2">>)

---------------------------------------------------------------------------
(* Further claims about extract_building_info_from_text (specification     *)
(* SpecExtract)                                                            *)

\* C14 (the claim as stated): when the extraction call returns a JSON
\* object, the returned record holds, for every BuildingInfo field, the
\* value of the payload when it has the declared type and null (or no
\* entry) otherwise: a field that is absent or fails its type does not
\* cost the other fields their values.
C14_FieldwiseNull ==
    (prog = "extract_building_info_from_text" /\ pc = "returned"
        /\ arg.response.kind = "json" /\ arg.response.data.t = "object") =>
       LET payload == arg.response.data.obj IN
       \A f \in DOMAIN BuildingInfo.types :
          Get(ret.value, f, Null) =
             IF f \in DOMAIN payload /\ payload[f].k = BuildingInfo.types[f]
             THEN payload[f] ELSE Null

---------------------------------------------------------------------------
(* building_analyzer.py: scan_data_directory (specification SpecScan) *)

\* A directory entry: its name (stem and extension), whether it is a
\* directory, and, for a directory, its listing in os.listdir order
FileEntry(stem, ext) == [name |-> <<stem, ext>>, kind |-> "file", entries |-> <<>>]
DirEntry(stem, entries) == [name |-> <<stem, "">>, kind |-> "dir", entries |-> entries]

\* The name of the reports folder (line 313)
REPORTS == <<"reports", "">>

\* str.lower() on the extensions used here
Lower(ext) == IF ext \in {".PDF", ".Pdf"} THEN ".pdf" ELSE ext

\* file.lower().endswith('.pdf')
EndsWithPdf(name) == Lower(name[2]) = ".pdf"

\* os.path.join(directory, name)
PathJoin(directory, name) == Append(directory, name)

\* os.path.isdir(path) for an entry of a listing
IsDir(entry) == entry.kind = "dir"

\* os.listdir(path): raises when the entry is not a directory
listdir(entry) == IF IsDir(entry) THEN Ok(entry.entries) ELSE Raise

RECURSIVE Chain(_)
\* A for loop over the turns' results: the entries of each turn, one after
\* the other; an exception in one turn ends the scan
Chain(turns) ==
    IF turns = <<>> THEN Ok(<<>>)
    ELSE IF Head(turns).raised THEN Raise
    ELSE LET rest == Chain(Tail(turns)) IN
         IF rest.raised THEN Raise ELSE Ok(Head(turns).value \o rest.value)

\* Lines 312-324: the reports folder of one building
ScanBuilding(city, category, building_type, building, building_path) ==
    LET found == SelectSeq(building.entries, LAMBDA x : x.name = REPORTS)
        reports_path == PathJoin(building_path, REPORTS)
    IN  IF found = <<>> THEN Ok(<<>>)                        \* os.path.exists is False
        ELSE LET listing == listdir(found[1]) IN
             IF listing.raised THEN Raise
             ELSE Ok([j \in 1..Len(SelectSeq(listing.value, LAMBDA x : EndsWithPdf(x.name))) |->
                        [ city |-> city.name, category |-> category.name,
                          building_type |-> building_type.name, building_name |-> building.name,
                          pdf_path |-> PathJoin(reports_path,
                              SelectSeq(listing.value, LAMBDA x : EndsWithPdf(x.name))[j].name) ]])

\* scan_data_directory(data_dir), data_dir being an existing directory with
\* the listing `root`
scan_data_directory(root) ==
    Chain([c \in 1..Len(root) |->
      LET city == root[c] IN
      IF ~IsDir(city) THEN Ok(<<>>) ELSE
      Chain([k \in 1..Len(city.entries) |->
        LET category == city.entries[k] IN
        IF ~IsDir(category) THEN Ok(<<>>) ELSE
        Chain([t \in 1..Len(category.entries) |->
          LET building_type == category.entries[t] IN
          IF ~IsDir(building_type) THEN Ok(<<>>) ELSE
          Chain([b \in 1..Len(building_type.entries) |->
            LET building == building_type.entries[b] IN
            IF ~IsDir(building) THEN Ok(<<>>) ELSE
            ScanBuilding(city, category, building_type, building,
                <<<<"data", "">>, city.name, category.name, building_type.name,
                  building.name>>)])])])])

\* A file that is in no folder the scan looks for PDFs in
StrayPdf == FileEntry("stray", ".pdf")

\* Listings of a reports folder: empty, one PDF, and PDFs in upper and mixed
\* case next to another file and to a directory named like a PDF
ReportsListings ==
    { <<>>,
      <<FileEntry("a", ".pdf")>>,
      <<FileEntry("a", ".pdf"), FileEntry("B", ".PDF"), FileEntry("notes", ".txt"),
        FileEntry("pdf", ""), FileEntry("c", ".Pdf"),
        [name |-> <<"archive", ".pdf">>, kind |-> "dir", entries |-> <<FileEntry("deep", ".pdf")>>]>> }

\* What a building directory may hold under the reports name: a folder, or
\* a regular file
ReportsEntries ==
    {[name |-> REPORTS, kind |-> "dir", entries |-> l] : l \in ReportsListings}
    \cup {[name |-> REPORTS, kind |-> "file", entries |-> <<>>]}

\* Building directories: without reports entry (empty or with a stray PDF),
\* and with one
BuildingDirs(stem) ==
    {DirEntry(stem, <<>>), DirEntry(stem, <<StrayPdf>>)}
    \cup {DirEntry(stem, <<StrayPdf, r>>) : r \in ReportsEntries}

\* Listings of a taxonomy level: nothing, one entry, a non-directory before
\* it, a second entry after it
LevelListings(entries, second) ==
    {<<>>} \cup {<<x>> : x \in entries} \cup {<<StrayPdf, x>> : x \in entries}
    \cup {<<x, second>> : x \in entries}

TypeDirs ==
    {DirEntry("type", l) :
        l \in LevelListings(BuildingDirs("b1"),
                 DirEntry("b2", <<[name |-> REPORTS, kind |-> "dir",
                                   entries |-> <<FileEntry("z", ".pdf")>>]>>))}

CategoryDirs ==
    {DirEntry("category", l) :
        l \in {<<x>> : x \in TypeDirs} \cup {<<StrayPdf, x>> : x \in TypeDirs}}

CityDirs ==
    {DirEntry("city", l) :
        l \in {<<x>> : x \in CategoryDirs} \cup {<<StrayPdf, DirEntry("category", <<>>)>>}}

\* The listings of the data directory
DataDirs ==
    {<<>>, <<StrayPdf>>} \cup {<<x>> : x \in CityDirs} \cup {<<StrayPdf, x>> : x \in CityDirs}

InitScan ==
    /\ prog = "scan_data_directory"
    /\ pc = "call"
    /\ arg \in DataDirs
    /\ ret = <<>>
    /\ building_files = <<>>
    /\ i = 0
    /\ all_buildings = <<>>
    /\ all_suggestions = <<>>
    /\ files = NoFiles

\* building_files = scan_data_directory()
CallScanDataDirectory ==
    /\ prog = "scan_data_directory"
    /\ pc = "call"
    /\ ret' = scan_data_directory(arg)
    /\ pc' = IF ret'.raised THEN "crashed" ELSE "returned"
    /\ building_files' = IF ret'.raised THEN building_files ELSE ret'.value
    /\ UNCHANGED <<prog, i, all_buildings, all_suggestions, files, arg>>

SpecScan == InitScan /\ [][CallScanDataDirectory]_vars

\* The entries of a listing that are directories
Dirs(entries) == {entries[j] : j \in {k \in 1..Len(entries) : entries[k].kind = "dir"}}

\* The entries the scan is to return for a data directory: one for each
\* entry named *.pdf (in any case) directly in the reports folder of
\* data/<city>/<category>/<type>/<building>
PdfsAtDepth(root) ==
    UNION { UNION { UNION { UNION {
        { [ city |-> c.name, category |-> k.name, building_type |-> t.name,
            building_name |-> b.name,
            pdf_path |-> <<<<"data", "">>, c.name, k.name, t.name, b.name, REPORTS, f.name>> ] :
              f \in { x \in UNION {Range(r.entries) : r \in {y \in Dirs(b.entries) : y.name = REPORTS}} :
                         x.name[2] \in {".pdf", ".PDF", ".Pdf"} } }
        : b \in Dirs(t.entries) } : t \in Dirs(k.entries) } : k \in Dirs(c.entries) } : c \in Dirs(root) }

\* C16 (the claim as stated): scan_data_directory ends without error on
\* every data directory and returns exactly one entry for each *.pdf entry
\* in a reports folder at the taxonomy depth, none for PDFs elsewhere, none
\* for non-directories at the taxonomy levels and none for a building
\* without reports folder.
C16_ScanReturnsPdfsAtDepth ==
    /\ pc # "crashed"
    /\ (prog = "scan_data_directory" /\ pc = "returned") =>
          /\ Range(ret.value) = PdfsAtDepth(arg)
          /\ Len(ret.value) = Cardinality(PdfsAtDepth(arg))

---------------------------------------------------------------------------
(* main.py: generate_random_csv_structure (specification SpecSchema) *)

\* The tokens of the type heuristic (lines 147 and 149); "ar_x" stands for
\* the Arabic word
DateTokens == {"date", "ar_date"}

\* A numeric token list without "size"
NumericTokens_NoSize ==
    { "revenue", "income", "assets", "count", "score",
      "ar_revenue", "ar_income", "ar_assets", "ar_count", "ar_score" }

NumericTokens ==
    { "revenue", "income", "assets", "count", "score", "size",
      "ar_revenue", "ar_income", "ar_assets", "ar_count", "ar_score", "ar_size" }

\* The heuristic's tokens that occur in a pool name (the substring tests
\* `token in field_name.lower()` and `token in field_name`)
TokensIn(field_name) ==
    CASE field_name \in {"filing_date"} -> {"date"}
      [] field_name \in {"ar_filing_date"} -> {"ar_date"}
      [] field_name \in {"total_revenue"} -> {"revenue"}
      [] field_name \in {"ar_total_revenue"} -> {"ar_revenue"}
      [] field_name \in {"net_income"} -> {"income"}
      [] field_name \in {"ar_net_income"} -> {"ar_income"}
      [] field_name \in {"total_assets"} -> {"assets"}
      [] field_name \in {"ar_total_assets"} -> {"ar_assets"}
      [] field_name \in {"employee_count", "risk_count", "page_count", "image_count"} -> {"count"}
      [] field_name \in {"ar_employee_count", "ar_risk_count", "ar_page_count",
                         "ar_image_count"} -> {"ar_count"}
      [] field_name \in {"confidence_score"} -> {"score"}
      [] field_name \in {"ar_confidence_score"} -> {"ar_score"}
      [] field_name \in {"document_size_mb"} -> {"size"}
      [] field_name \in {"ar_document_size_mb"} -> {"ar_size"}
      [] OTHER -> {}

\* One turn of the loop of lines 146-153: the declared type of the field and
\* the branch that chose it
FieldDefinition(field_name) ==
    IF TokensIn(field_name) \cap DateTokens # {}
    THEN [type |-> "str", branch |-> "date"]
    ELSE IF TokensIn(field_name) \cap NumericTokens # {}
    THEN [type |-> "num", branch |-> "number"]
    ELSE [type |-> "str", branch |-> "string"]

\* random.choices: a draw with replacement, here one that repeats a name
random_choices(population, k) ==
    { [j \in 1..k |-> population[o + ((j - 1) % (k - 1)) + 1]] : o \in {0, MaxOffset} }

\* Some outcomes of random.sample(population, k): k consecutive items from
\* the head, from MaxOffset items in and from the tail, and the first of
\* these in reverse order
random_sample(population, k) ==
    { [j \in 1..k |-> population[o + j]] : o \in {0, MaxOffset, Len(population) - k} }
    \cup { [j \in 1..k |-> population[k + 1 - j]] }

\* generate_random_csv_structure(language): the field names of the returned
\* dict, in its order
generate_random_csv_structure(language) ==
    UNION { random_sample(possible_fields(language), num_fields) :
               num_fields \in MinFields..MaxFields }

\* The language tags the function is called with (any tag but "arabic"
\* selects the English pool)
LanguageTags == {<<"arabic">>, <<"english">>, <<"french">>}

InitSchema ==
    /\ prog = "generate_random_csv_structure"
    /\ pc = "loop"
    /\ building_files \in SeqsUpTo(LanguageTags, MaxDocs)
    /\ i = 0
    /\ all_buildings = <<>>
    /\ all_suggestions = <<>>
    /\ files = NoFiles
    /\ arg = <<>>
    /\ ret = <<>>

\* analyze_pdf_with_ai, lines 143-153: csv_structure =
\* generate_random_csv_structure(language), once in every call, and the
\* field definitions built from it
SampleStructure ==
    /\ prog = "generate_random_csv_structure"
    /\ pc = "loop"
    /\ i < Len(building_files)
    /\ \E csv_structure \in generate_random_csv_structure(building_files[i + 1]) :
          /\ ret' = [ csv_structure |-> csv_structure,
                      field_definitions |->
                         [j \in 1..Len(csv_structure) |-> FieldDefinition(csv_structure[j])] ]
          /\ all_buildings' = Append(all_buildings, csv_structure)
    /\ arg' = building_files[i + 1]
    /\ i' = i + 1
    /\ UNCHANGED <<prog, pc, building_files, all_suggestions, files>>

SpecSchema == InitSchema /\ [][SampleStructure]_vars

\* C17: every schema generated has between 8 and 12 fields, all distinct,
\* all from the pool of its language tag (the Arabic pool iff the tag is
\* "arabic"), and there is one schema per call, drawn in that call.
C17_SchemaFromPool ==
    prog = "generate_random_csv_structure" =>
       /\ Len(all_buildings) = i
       /\ i > 0 => ret.csv_structure = all_buildings[i]
       /\ \A j \in 1..Len(all_buildings) :
             LET schema == all_buildings[j]
                 pool == IF building_files[j] = <<"arabic">> THEN ArabicPool ELSE EnglishPool
             IN  /\ Len(schema) >= 8 /\ Len(schema) <= 12
                 /\ \A a, b \in 1..Len(schema) : a # b => schema[a] # schema[b]
                 /\ \A a \in 1..Len(schema) : \E b \in 1..Len(pool) : schema[a] = pool[b]

\* C17 witness: two documents with the same tag, other than "english" and
\* "arabic", got different schemas, one of 8 and one of 12 English fields
C17_Witness ==
    /\ prog = "generate_random_csv_structure"
    /\ i = 2
    /\ building_files[1] = <<"french">> /\ building_files[2] = <<"french">>
    /\ Len(all_buildings[1]) = 8 /\ Len(all_buildings[2]) = 12
    /\ all_buildings[1][1] = "company_name"
    /\ all_buildings[2][12] = "key_metrics"

\* C18: the schema builder types a field by the date branch (a string) when
\* its name contains a date token, otherwise as a number when its name
\* contains one of revenue, income, assets, count, score, size (or the
\* Arabic equivalents), otherwise as a plain string; and the numeric names
\* are those the dynamic model validates as numbers.
C18_TypeHeuristic ==
    (prog = "generate_random_csv_structure" /\ i > 0) =>
       /\ Len(ret.field_definitions) = Len(ret.csv_structure)
       /\ \A j \in 1..Len(ret.csv_structure) :
             LET name == ret.csv_structure[j]
                 hasDate == TokensIn(name) \cap {"date", "ar_date"} # {}
                 hasNumeric ==
                    TokensIn(name) \cap
                       { "revenue", "income", "assets", "count", "score", "size",
                         "ar_revenue", "ar_income", "ar_assets", "ar_count", "ar_score",
                         "ar_size" } # {}
                 def == ret.field_definitions[j]
             IN  /\ hasDate => def = [type |-> "str", branch |-> "date"]
                 /\ (~hasDate /\ hasNumeric) => def = [type |-> "num", branch |-> "number"]
                 /\ (~hasDate /\ ~hasNumeric) => def = [type |-> "str", branch |-> "string"]
                 /\ (def.type = "num") <=> (name \in NumericFields)

\* C18 witness: a schema with a date field, a numeric field and a plain
\* string field has been typed
C18_Witness ==
    /\ prog = "generate_random_csv_structure" /\ i > 0
    /\ Len(ret.csv_structure) = 12
    /\ ret.csv_structure[3] = "filing_date"
    /\ ret.field_definitions[3] = [type |-> "str", branch |-> "date"]
    /\ ret.csv_structure[4] = "fiscal_year"
    /\ ret.field_definitions[4] = [type |-> "str", branch |-> "string"]
    /\ ret.csv_structure[5] = "total_revenue"
    /\ ret.field_definitions[5] = [type |-> "num", branch |-> "number"]

---------------------------------------------------------------------------
(* Further claims about main.py's run (specification SpecMain) *)

\* The documents of the batch whose extracted text has an Arabic-script
\* character (a corrupt document has no text)
ArabicDocuments ==
    { j \in 1..Len(building_files) :
         /\ ~building_files[j].corrupt
         /\ \E q \in 1..Len(building_files[j].pages) :
               \E p \in 1..Len(building_files[j].pages[q].s) :
                  building_files[j].pages[q].s[p] = "arabic-script" }

\* The processing_timestamp cells of a CSV file, row by row
TimestampColumn(file) ==
    [k \in 1..Len(file.rows) |->
        file.rows[k][CHOOSE h \in 1..Len(file.header) :
                        file.header[h] = "processing_timestamp"]]

\* C19: save_to_csv_files puts the record of every document in exactly one
\* language file, the Arabic one iff the document's text has an
\* Arabic-script character and the English one otherwise (empty text
\* included), in batch order; the two row counts add up to the batch size;
\* a language file is written only for a non-empty partition; the binary
\* file has one row per record of the whole batch.
C19_LanguagePartition ==
    (prog = "main" /\ pc = "done") =>
       LET n == Len(all_buildings)
           english == (1..n) \ ArabicDocuments
       IN  /\ n = Len(building_files)
           /\ \A j \in 1..n :
                 all_buildings[j]["detected_language"] =
                    IF j \in ArabicDocuments THEN Str(<<"arabic">>) ELSE Str(<<"english">>)
           /\ (ArabicCsv.kind = "csv") <=> (ArabicDocuments # {})
           /\ (EnglishCsv.kind = "csv") <=> (english # {})
           /\ ArabicDocuments = {} => ArabicCsv = NoFile
           /\ english = {} => EnglishCsv = NoFile
           /\ Len(ArabicCsv.rows) = Cardinality(ArabicDocuments)
           /\ Len(EnglishCsv.rows) = Cardinality(english)
           /\ Len(ArabicCsv.rows) + Len(EnglishCsv.rows) = n
           /\ \A j \in ArabicDocuments :
                 TimestampColumn(ArabicCsv)[Cardinality({k \in ArabicDocuments : k <= j})]
                    = now(j)
           /\ \A j \in english :
                 TimestampColumn(EnglishCsv)[Cardinality({k \in english : k <= j})]
                    = now(j)
           /\ (BinaryCsv.kind = "csv") <=> (n > 0)
           /\ Len(BinaryCsv.rows) = n

\* C19 witness: a batch of an Arabic document and an unreadable one has been
\* written, one row in each language file and two in the binary file
C19_Witness ==
    /\ prog = "main" /\ pc = "done"
    /\ Len(building_files) = 2
    /\ building_files[1] = PdfDocument(FALSE, "arabic", 0)
    /\ building_files[2] = PdfDocument(TRUE, "arabic", 0)
    /\ Len(ArabicCsv.rows) = 1 /\ Len(EnglishCsv.rows) = 1
    /\ Len(BinaryCsv.rows) = 2

---------------------------------------------------------------------------
(* The prompt of generate_building_suggestions (specification SpecSuggest) *)

\* The fields of the record the summary shows with building_info.get(field,
\* default), and the default of each (lines 216-223)
SummaryDefaults ==
    [f \in {"building_name", "city_name", "building_category",
            "structural_condition", "maintenance_status"} |-> UNDETERMINED]
    @@ [f \in {"priority_level"} |-> MEDIUM]

\* building_summary (lines 214-224): for every summarized field, the text
\* the f-string puts in the prompt
building_summary(building_info) ==
    [f \in DOMAIN SummaryDefaults |->
        PyStr(Get(building_info, f, Str(SummaryDefaults[f])))]

\* C20 (the claim as stated): in the prompt of the call, a summarized field
\* that the record lacks or holds as null shows its placeholder, and no
\* summarized field shows the text of a null.
C20_NoNullInSummary ==
    (prog = "generate_building_suggestions" /\ pc = "returned") =>
       \A f \in DOMAIN SummaryDefaults :
          /\ building_summary(arg.building_info)[f] # <<"None">>
          /\ (f \notin DOMAIN arg.building_info \/ arg.building_info[f] = Null) =>
                building_summary(arg.building_info)[f] = SummaryDefaults[f]

---------------------------------------------------------------------------
(* load_pdf_text and load_file on documents read page by page              *)
(* (specification SpecText)                                                *)

\* What one page can do: text, other text, the empty string, None, raise
PageOutcomes ==
    { PageText(<<"a", " ">>), PageText(<<"b">>), PageText(<<>>), PageNone, PageRaises }

\* An unreadable file, and the readable files of up to MaxPages pages
PagedDocuments ==
    {[corrupt |-> TRUE, pages |-> <<>>]}
    \cup {[corrupt |-> FALSE, pages |-> pages] : pages \in SeqsUpTo(PageOutcomes, MaxPages)}

InitText ==
    /\ prog \in {"load_pdf_text", "load_file"}
    /\ pc = "call"
    /\ arg \in PagedDocuments
    /\ ret = <<>>
    /\ building_files = <<>>
    /\ i = 0
    /\ all_buildings = <<>>
    /\ all_suggestions = <<>>
    /\ files = NoFiles

\* pdf_text = load_pdf_text(pdf_path)
CallLoadPdfText ==
    /\ prog = "load_pdf_text" /\ pc = "call"
    /\ ret' = load_pdf_text(arg)
    /\ pc' = "returned"
    /\ UNCHANGED <<prog, building_files, i, all_buildings, all_suggestions, files, arg>>

\* pdf_text = load_file(pdf_path)
CallLoadFile ==
    /\ prog = "load_file" /\ pc = "call"
    /\ ret' = load_file(arg)
    /\ pc' = "returned"
    /\ UNCHANGED <<prog, building_files, i, all_buildings, all_suggestions, files, arg>>

NextText ==
    \/ CallLoadPdfText
    \/ CallLoadFile

SpecText == InitText /\ [][NextText]_vars

\* C21 (the claim as stated): for a file the parser can open, the text
\* extractor returns the texts of the pages, in page order and with nothing
\* between them, a page that gives no text or fails counting as the empty
\* string.
C21_FailingPageIsEmpty ==
    (prog \in {"load_pdf_text", "load_file"} /\ pc = "returned" /\ ~arg.corrupt) =>
        ret = Concat([j \in 1..Len(arg.pages) |->
                        IF arg.pages[j].outcome = "text" THEN arg.pages[j].s ELSE <<>>])

---------------------------------------------------------------------------
(* The order of processing and writing (specifications Spec and SpecMain) *)

\* A step of a run writes to some output file
Writes == files' # files

\* C22: in every run the documents are handled one at a time in scan order,
\* each record being appended to the batch while no output file exists yet;
\* an output file is written only after the loop has handled every scanned
\* document, from the complete batch, which the writing leaves as it is; and
\* no output file is written twice.
C22_WriteAfterLoop ==
    [][ (prog = "building_analyzer" \/ prog = "main") => (
          /\ all_buildings' # all_buildings =>
                /\ ~Writes /\ files = NoFiles
                /\ Len(all_buildings) = i /\ i < Len(building_files)
                /\ Len(all_buildings') = i + 1
                /\ SubSeq(all_buildings', 1, i) = all_buildings
                /\ building_files' = building_files
          /\ i' # i => (i' = i + 1 /\ ~Writes /\ Len(all_buildings') = i')
          /\ all_suggestions' # all_suggestions =>
                (~Writes /\ files = NoFiles /\ Len(all_buildings) = i + 1)
          /\ Writes =>
                /\ i = Len(building_files) /\ i' = i
                /\ Len(all_buildings) = Len(building_files)
                /\ all_buildings' = all_buildings
                /\ all_suggestions' = all_suggestions
                /\ \A f \in FileNames : files'[f] # files[f] => files[f] = NoFile )
      ]_vars

\* C22 witness: a run over two documents has ended with both records and
\* the buildings and suggestions files written
C22_Witness ==
    /\ prog = "building_analyzer" /\ pc = "done"
    /\ Len(building_files) = 2 /\ Len(all_buildings) = 2 /\ i = 2
    /\ Len(BuildingsCsv.rows) = 2
    /\ files["ai_suggestions/suggestions.csv"].kind = "csv"

---------------------------------------------------------------------------
(* building_analyzer.py: a whole run of process_buildings, from the scan   *)
(* to the save step, under fair scheduling (specification SpecRun)         *)

\* The corpora of the runs: a data directory with one city, one category
\* and one type folder, whose scan fails or finds at most MaxDocs documents
RunCorpora ==
    { d \in {<<DirEntry("city", <<DirEntry("category", <<t>>)>>)>> : t \in TypeDirs} :
        LET r == scan_data_directory(d) IN r.raised \/ Len(r.value) <= MaxDocs }

\* An entry of the scan together with what the PDF parsers find in the file
ScannedDocument(entry, contents) ==
    [ city |-> entry.city, category |-> entry.category,
      building_type |-> entry.building_type, building_name |-> entry.building_name,
      file |-> entry.pdf_path[Len(entry.pdf_path)],
      corrupt |-> contents.corrupt, pages |-> contents.pages,
      images |-> contents.images ]

\* Line 332: process_buildings has been entered, the data directory exists
InitRun ==
    /\ prog = "building_analyzer"
    /\ pc = "scan"
    /\ arg \in RunCorpora
    /\ building_files = <<>>
    /\ i = 0
    /\ all_buildings = <<>>
    /\ all_suggestions = <<>>
    /\ files = NoFiles
    /\ ret = <<>>

\* Lines 335-339: building_files = scan_data_directory(); an exception of
\* the scan leaves process_buildings
ScanCorpus ==
    /\ prog = "building_analyzer"
    /\ pc = "scan"
    /\ LET r == scan_data_directory(arg) IN
       IF r.raised
       THEN /\ pc' = "crashed"
            /\ UNCHANGED building_files
       ELSE /\ pc' = "loop"
            /\ \E contents \in [1..Len(r.value) -> Documents] :
                 building_files' =
                    [j \in 1..Len(r.value) |-> ScannedDocument(r.value[j], contents[j])]
    /\ UNCHANGED <<prog, i, all_buildings, all_suggestions, files, arg, ret>>

NextRun ==
    \/ ScanCorpus
    \/ ProcessDocument
    \/ GenerateSuggestions
    \/ SaveBuildingData
    \/ SaveSuggestionsData

\* The interpreter runs the statements of process_buildings one after the
\* other: a statement that can run does run
SpecRun == InitRun /\ [][NextRun]_vars /\ WF_vars(NextRun)

\* C23 (the claim as stated): every run over a corpus whose root exists
\* reaches the end of the save step, having handled each discovered
\* document exactly once, whatever the parsers and the services do.
C23_RunTerminates ==
    <>( /\ pc = "done"
        /\ i = Len(building_files)
        /\ Len(all_buildings) = Len(building_files) )

---------------------------------------------------------------------------
(* The metadata of a record (specifications Spec and SpecMain) *)

\* The number of images extract_images_from_pdf saves for a document
ImagesSaved(doc) == IF doc.corrupt THEN 0 ELSE doc.images

\* The image count a record carries: the image_count field, or else the
\* length of its list of image paths
ImageCount(record) ==
    IF "image_count" \in DOMAIN record THEN record["image_count"]
    ELSE IF "image_paths" \in DOMAIN record /\ record["image_paths"].k = "list"
         THEN Num(Len(record["image_paths"].l))
         ELSE Null

\* C24 (the claim as stated): every record of the batch carries the
\* pipeline's metadata: its image count is the number of images saved for
\* its document, its timestamp is the time the pipeline took while handling
\* the document, and it has the document's size, whatever the extraction
\* returned and whether it succeeded or failed.
C24_PipelineMetadata ==
    (prog \in {"building_analyzer", "main"}) =>
       \A j \in 1..Len(all_buildings) :
          LET record == all_buildings[j]
              doc == building_files[j]
          IN  /\ ImageCount(record) = Num(ImagesSaved(doc))
              /\ Get(record, "processing_timestamp", Null) = Str(now(j))
              /\ "document_size_mb" \in DOMAIN record
              /\ "size_mb" \in DOMAIN doc => record["document_size_mb"] = Num(doc.size_mb)

---------------------------------------------------------------------------
(* extract_images_from_pdf of both programs, page by page (specification   *)
(* SpecImages)                                                             *)

\* What stops the extraction at an image
ImageFailures == {"extract_raises", "open_raises", "write_raises"}

\* A page with n images of which image n fails, and n + 1 when the last
\* image is preceded by the failing one
FailsAt(n, failure, after) ==
    ImagePage(TRUE, [j \in 1..(n + after) |-> IF j = n THEN failure ELSE "saved"])

\* The pages tried: one that cannot be loaded, pages without failure, and
\* pages whose first or last image fails, with and without an image after it
ImagePages ==
    {ImagePage(FALSE, <<>>), AllSaved(0), AllSaved(MaxImages)}
    \cup {FailsAt(1, f, 1) : f \in ImageFailures}
    \cup {FailsAt(MaxImages, f, 0) : f \in ImageFailures}

\* The documents tried: one fitz cannot open, and every sequence of at most
\* MaxPages pages
ImageDocuments ==
    {[corrupt |-> TRUE, image_pages |-> <<>>]}
    \cup {[corrupt |-> FALSE, image_pages |-> ps] : ps \in SeqsUpTo(ImagePages, MaxPages)}

InitImages ==
    /\ prog \in {"extract_images_from_pdf", "main_extract_images_from_pdf"}
    /\ pc = "call"
    /\ arg \in ImageDocuments
    /\ ret = <<>>
    /\ building_files = <<>>
    /\ i = 0
    /\ all_buildings = <<>>
    /\ all_suggestions = <<>>
    /\ files = NoFiles

\* building_analyzer.py: extract_images_from_pdf(pdf_path, building_id)
CallExtractImages ==
    /\ prog = "extract_images_from_pdf"
    /\ pc = "call"
    /\ ret' = SaveImages(<<"building_images/">> \o uuid4(1) \o <<"/">>, arg)
    /\ pc' = IF ret'.raised THEN "crashed" ELSE "returned"
    /\ UNCHANGED <<prog, building_files, i, all_buildings, all_suggestions, files, arg>>

\* main.py: extract_images_from_pdf(pdf_path, "extracted_images")
CallMainExtractImages ==
    /\ prog = "main_extract_images_from_pdf"
    /\ pc = "call"
    /\ ret' = SaveImages(<<"extracted_images/", "doc", "_">>, arg)
    /\ pc' = IF ret'.raised THEN "crashed" ELSE "returned"
    /\ UNCHANGED <<prog, building_files, i, all_buildings, all_suggestions, files, arg>>

NextImages ==
    \/ CallExtractImages
    \/ CallMainExtractImages

SpecImages == InitImages /\ [][NextImages]_vars

\* The positions (page, image), 1-based, of the images of a document
ImagePositions(doc) ==
    {<<p, j>> : p \in 1..Len(doc.image_pages), j \in 1..MaxImages + 1} \cap
    UNION {{<<p, j>> : j \in 1..Len(doc.image_pages[p].images)} : p \in 1..Len(doc.image_pages)}

\* (page, image-index) order
Before(a, b) == a[1] < b[1] \/ (a[1] = b[1] /\ a[2] < b[2])

\* The positions at which the extraction of a readable document fails: a
\* page that cannot be loaded fails before its first image
FailurePositions(doc) ==
    {<<p, 0>> : p \in {q \in 1..Len(doc.image_pages) : ~doc.image_pages[q].loads}}
    \cup {x \in ImagePositions(doc) : doc.image_pages[x[1]].images[x[2]] # "saved"}

\* The images saved before the first failure
SavedBeforeFailure(doc) ==
    IF doc.corrupt THEN {}
    ELSE {x \in ImagePositions(doc) : \A f \in FailurePositions(doc) : Before(x, f)}

\* The directory and name prefix of the call's image files
ImagePrefix ==
    IF prog = "extract_images_from_pdf" THEN <<"building_images/">> \o uuid4(1) \o <<"/">>
    ELSE <<"extracted_images/", "doc", "_">>

\* C25: extract_images_from_pdf never raises; when the extraction fails
\* after k images were saved it returns exactly the k paths of the images
\* before the failure, in (page, image-index) order and named with 1-based
\* page and image indices; the k files exist afterwards, and no image after
\* the failure has been saved.
C25_PartialImages ==
    /\ (prog \in {"extract_images_from_pdf", "main_extract_images_from_pdf"}) => pc # "crashed"
    /\ (prog \in {"extract_images_from_pdf", "main_extract_images_from_pdf"} /\ pc = "returned") =>
          LET saved == SavedBeforeFailure(arg)
              k == Cardinality(saved)
              position(n) == CHOOSE x \in saved :
                                Cardinality({y \in saved : Before(y, x)}) = n - 1
          IN  /\ ~ret.raised
              /\ Len(ret.value) = k
              /\ \A n \in 1..k :
                    ret.value[n] = ImagePrefix \o
                        <<"page_", ToString(position(n)[1]), "_img_",
                          ToString(position(n)[2]), "_", "uuid8", ".png">>
              /\ Range(ret.value) \subseteq ret.written
              /\ \A x \in ImagePositions(arg) :
                    (\E f \in FailurePositions(arg) : Before(f, x)) =>
                        ImagePath(ImagePrefix, x[1] - 1, x[2] - 1) \notin ret.written

\* C25 witness: the first page's images were saved, the second page failed
\* at its second image after saving its first, a third page with images
\* follows; the call returned the paths of page 1 and of the first image of
\* page 2
C25_Witness ==
    /\ prog = "extract_images_from_pdf" /\ pc = "returned"
    /\ ~arg.corrupt /\ Len(arg.image_pages) = 3
    /\ arg.image_pages[1] = AllSaved(MaxImages)
    /\ arg.image_pages[2] = FailsAt(MaxImages, "extract_raises", 0)
    /\ arg.image_pages[3] = AllSaved(MaxImages)
    /\ Len(ret.value) = 2 * MaxImages - 1
    /\ ret.value[Len(ret.value)] =
          ImagePath(ImagePrefix, 1, MaxImages - 2)
    /\ Range(ret.value) \subseteq ret.written

---------------------------------------------------------------------------
(* The save functions on a disk that holds the output of an earlier run     *)
(* (specification SpecStale)                                               *)

\* The output files written as JSON
JsonNames == {"building_data/buildings_detailed.json", "ai_suggestions/suggestions_detailed.json"}

\* A disk on which an earlier run has left every output file
StaleFiles ==
    [name \in FileNames |->
        IF name \in JsonNames
        THEN JsonFile(<<[f \in {"stale"} |-> JsonOf(Str(<<"old">>))]>>)
        ELSE CsvFile(<<"stale">>, << <<<<"old">>>> >>)]

\* The batches handed to a save function called on its own: the empty one
\* and one record of either language
StaleBatches ==
    {<<>>} \cup {<<[f \in {"detected_language"} |-> Str(<<w>>)]>> : w \in {"arabic", "english"}}

\* Either a run of process_buildings on the stale disk, or one call of a
\* save function on a fresh or stale disk; arg keeps the disk as it was
InitStale ==
    /\ prog \in {"building_analyzer", "save"}
    /\ i = 0
    /\ all_suggestions = <<>>
    /\ ret = <<>>
    /\ IF prog = "building_analyzer"
       THEN /\ pc = "loop"
            /\ building_files \in SeqsUpTo(Documents, MaxDocs)
            /\ all_buildings = <<>>
            /\ files = StaleFiles
       ELSE /\ pc = "start"
            /\ building_files = <<>>
            /\ all_buildings \in StaleBatches
            /\ files \in {NoFiles, StaleFiles}
    /\ arg = files

\* save_building_data(batch)
CallSaveBuildingData ==
    /\ prog = "save" /\ pc = "start"
    /\ files' = save_building_data(all_buildings, files)
    /\ ret' = <<"save_building_data">>
    /\ pc' = "saved"
    /\ UNCHANGED <<prog, building_files, i, all_buildings, all_suggestions, arg>>

\* save_suggestions_data(batch)
CallSaveSuggestionsData ==
    /\ prog = "save" /\ pc = "start"
    /\ files' = save_suggestions_data(all_buildings, files)
    /\ ret' = <<"save_suggestions_data">>
    /\ pc' = "saved"
    /\ UNCHANGED <<prog, building_files, i, all_buildings, all_suggestions, arg>>

\* save_to_csv_files(batch)
CallSaveToCsvFiles ==
    /\ prog = "save" /\ pc = "start"
    /\ files' = save_to_csv_files(all_buildings, files)
    /\ ret' = <<"save_to_csv_files">>
    /\ pc' = "saved"
    /\ UNCHANGED <<prog, building_files, i, all_buildings, all_suggestions, arg>>

\* save_language_csv(batch, output_file, language)
CallSaveLanguageCsv ==
    /\ prog = "save" /\ pc = "start"
    /\ \E output_file \in {"output/arabic_data.csv", "output/english_data.csv"} :
          /\ files' = save_language_csv(all_buildings, output_file, files)
          /\ ret' = <<"save_language_csv", output_file>>
    /\ pc' = "saved"
    /\ UNCHANGED <<prog, building_files, i, all_buildings, all_suggestions, arg>>

\* save_binary_csv(batch, output_file)
CallSaveBinaryCsv ==
    /\ prog = "save" /\ pc = "start"
    /\ files' = save_binary_csv(all_buildings, "output/binary_data.csv", files)
    /\ ret' = <<"save_binary_csv">>
    /\ pc' = "saved"
    /\ UNCHANGED <<prog, building_files, i, all_buildings, all_suggestions, arg>>

NextStale ==
    \/ ProcessDocument
    \/ GenerateSuggestions
    \/ SaveBuildingData
    \/ SaveSuggestionsData
    \/ CallSaveBuildingData
    \/ CallSaveSuggestionsData
    \/ CallSaveToCsvFiles
    \/ CallSaveLanguageCsv
    \/ CallSaveBinaryCsv

SpecStale == InitStale /\ [][NextStale]_vars

\* The files save_suggestions_data writes
SuggestionFiles == {"ai_suggestions/suggestions.csv", "ai_suggestions/suggestions_detailed.json"}

\* C26: a save function called with an empty batch leaves the disk as it
\* was: it creates no file and overwrites none; and at the end of a run of
\* process_buildings in which no suggestion validated, the suggestions
\* files of the earlier run are as that run left them (every file is, when
\* the run had no record either).
C26_EmptyBatchWritesNothing ==
    /\ (prog = "save" /\ pc = "saved" /\ all_buildings = <<>>) => files = arg
    /\ (prog = "building_analyzer" /\ pc \in {"save_suggestions", "done"}
            /\ all_buildings = <<>>) => files = arg
    /\ (prog = "building_analyzer" /\ pc = "done" /\ all_suggestions = <<>>) =>
          \A name \in SuggestionFiles : files[name] = arg[name]

\* C26 witness: a run over two documents has ended without a valid
\* suggestion; it has overwritten the buildings file of the earlier run and
\* the earlier run's suggestions file is still there
C26_Witness ==
    /\ prog = "building_analyzer" /\ pc = "done"
    /\ Len(all_buildings) = 2 /\ all_suggestions = <<>>
    /\ arg = StaleFiles
    /\ files["building_data/buildings.csv"] # StaleFiles["building_data/buildings.csv"]
    /\ Len(files["building_data/buildings.csv"].rows) = 2
    /\ files["ai_suggestions/suggestions.csv"] = CsvFile(<<"stale">>, << <<<<"old">>>> >>)
    /\ files["ai_suggestions/suggestions_detailed.json"].kind = "json"

===========================================================================
